---- MODULE Spec2Model ----
(***************************************************************************)
(* A model of the ermete edge server: the session manager                  *)
(* (internal/session), the peer session and its Close latch                *)
(* (internal/webrtc) and the frame store with its idempotency cache        *)
(* (internal/storage).                                                     *)
(*                                                                         *)
(* Goroutines are modelled as processes with a program position.  A        *)
(* critical section that calls nothing outside itself is one atomic step;  *)
(* the one critical section that calls out (Acquire's kick of the          *)
(* incumbent) keeps the manager mutex held across the steps of the call.   *)
(***************************************************************************)
EXTENDS Integers, Sequences, FiniteSets, TLC

VARIABLES
    \* ---- session.Manager ----
    policy,       \* Manager.policy
    mgrMu,        \* Manager.mu: Free or the goroutine holding it
    state,        \* Manager.state
    active,       \* Manager.active: a peer or Nil
    lastActive,   \* Manager.lastActive
    \* ---- webrtc.PeerSession, one per accepted transport ----
    closed,       \* PeerSession.closed
    pcState,      \* PeerSession.pc: "nil", "open" or "closed"
    wired,        \* the peer-connection callbacks of initPeer are registered
    connState,    \* PeerSession.conn: "none", "open" or "closed"
    effects,      \* per peer, the side effects Close calls performed, in order
    \* ---- goroutines ----
    pc,           \* position of every goroutine
    cstep,        \* position inside PeerSession.Close, "none" outside it
    iceArg,       \* the state an ICE callback is about to pass to SetState
    acqResult,    \* per peer, what Acquire returned: "none", "ok" or "err"
    relFound,     \* per peer, what its Release found: "none" before the call,
                  \* then "match", "other" (another incumbent) or "empty"
    sent,         \* the frames the step just taken wrote to the transports
    track,        \* the remote-audio loop of an OnTrack callback
    \* ---- time ----
    now,          \* the clock as the frame store's callers read it
    \* ---- storage.FrameStore ----
    idemTTL,      \* FrameStore.idemTTL
    idemMax,      \* FrameStore.idemMax
    byIdempotency,\* FrameStore.byIdempotency: key -> [frameMeta, seenAt]
    idemOrder,    \* FrameStore.idemOrder: the keys in insertion order
    last,         \* FrameStore.last
    count,        \* FrameStore.count
    files,        \* the frames directory: file name -> bytes
    nanos,        \* the last time.Now().UnixNano() used in a file name
    \* ---- callers of the frame store ----
    req,          \* per client, the SaveFrame call waiting for the store lock
    sweepNow,     \* the now a cleanupExpired call was given, NoTime when idle
    started,      \* SaveFrame calls begun so far
    \* ---- what the callers observed ----
    lastRet,      \* the return of the SaveFrame call that completed last
    lastSweep,    \* what the cleanupExpired call that has just returned removed
                  \* and kept, when it removed anything; NoSweep once
                  \* anything else has happened
    orig,         \* key -> the meta its last non-duplicate save returned
    evicted,      \* keys whose entry was evicted for capacity since that save
    keysSeen,     \* the idempotency keys of all completed SaveFrame calls
    writeErrs,    \* how many times os.WriteFile has failed
    firstAt,      \* the now of the SaveFrame call that completed first
    \* ---- the naming of one frame file ----
    nameIn,       \* the frame id, content type and clock reading given
    nameOut,      \* the file name and path made of them, NoName before
    \* ---- httpapi.Limiter ----
    limiters,     \* Limiter.limiters: ip -> [tokens, lastSeen]
    limTTL,       \* Limiter.ttl
    maxEntries,   \* Limiter.maxEntries
    limSweep,     \* the now a Limiter.cleanup call was given, NoTime when idle
    \* ---- httpapi.API ----
    cfg,          \* API.cfg: the credential and origin settings
    hreq,         \* the request being served and how far it has come
    served,       \* requests answered so far
    \* ---- main ----
    boot,         \* the environment config.Load is given and what it returned
    srv           \* the http.Server main runs: its phase and its connections

apiVars == <<nameIn, nameOut, limiters, limTTL, maxEntries, limSweep,
             cfg, hreq, served>>

storeVars == <<now, idemTTL, idemMax, byIdempotency, idemOrder, last, count,
               files, nanos, req, sweepNow, started, lastRet, lastSweep, orig,
               evicted, keysSeen, writeErrs, firstAt>>

mainVars == <<boot, srv>>

sessVars == <<policy, mgrMu, state, active, lastActive, closed, pcState, wired,
              connState, effects, pc, cstep, iceArg, acqResult, relFound,
              sent, track>>

\* ---- bounds ----
NumPeers == 2
MaxTime == 2

\* ---- values ----
Peers == 1..NumPeers
Nil == 0
Free == <<"free", 0>>
Times == 0..MaxTime

\* time.Now(), read after a reading of t: the clock does not run backwards.
\* The zero time.Time is 0 and every reading of the clock is later than it.
TimeNow(t) == {u \in Times : u >= t /\ u >= 1}

StateDisconnected == "disconnected"
StateConnecting == "connecting"
StateConnected == "connected"

SessionPolicyRejectSecond == "reject_second"
SessionPolicyKickPrevious == "kick_previous"

\* The goroutines of one peer: its HandleWS call, the goroutine pion runs its
\* connection-state callback on, and the one it runs its ICE callback on.
Handler(p) == <<"h", p>>
ConnCb(p) == <<"cb", p>>
IceCb(p) == <<"ice", p>>
Goroutines == {"h", "cb", "ice"} \X Peers
PeerOf(g) == g[2]

\* PeerSession.ID: sess-<UnixNano of the accept>, one per peer.
ID(p) == <<"sess", p>>

\* writeJSON(conn, SignalMessage{Type, Message}): one frame written to the
\* transport of peer p.
Frame(p, type, message) == [to |-> p, type |-> type, message |-> message]

\* A step that writes nothing.
NoFrames == <<>>

\* ------------------------------------------------------------------------
\* session.Manager
\* ------------------------------------------------------------------------

\* NewManager: no incumbent, Disconnected, the zero lastActive.
InitManager ==
    /\ policy \in {SessionPolicyRejectSecond, SessionPolicyKickPrevious}
    /\ mgrMu = Free
    /\ state = StateDisconnected
    /\ active = Nil
    /\ lastActive = 0

\* Acquire, lines 97-100: install s as the incumbent.
Install(s) ==
    /\ active' = s
    /\ state' = StateConnecting
    /\ lastActive' \in TimeNow(lastActive)

\* Mutant of ReleaseMatches: the id comparison is dropped.
ReleaseAnyIncumbent(sessionID) == active # Nil

\* Release's condition: m.active != nil && m.active.ID() == sessionID.
ReleaseMatches(sessionID) == active # Nil /\ ID(active) = sessionID

\* Manager.Release under the lock.
Release(sessionID) ==
    IF ReleaseMatches(sessionID)
    THEN /\ active' = Nil
         /\ state' = StateDisconnected
         /\ lastActive' \in TimeNow(lastActive)
    ELSE UNCHANGED <<active, state, lastActive>>

\* Manager.SetState under the lock.
SetState(st) ==
    /\ state' = st
    /\ lastActive' \in TimeNow(lastActive)
    /\ UNCHANGED active

\* Manager.Touch under the lock.
Touch ==
    /\ lastActive' \in TimeNow(lastActive)
    /\ UNCHANGED <<active, state>>

\* Manager.Snapshot: SessionID is "" when there is no incumbent.
Snapshot ==
    [State |-> state,
     SessionID |-> IF active # Nil THEN ID(active) ELSE <<>>,
     LastActive |-> lastActive]

\* Mutant of Rejects: the test is made against the other policy.
RejectsInverted == policy = SessionPolicyKickPrevious

\* Acquire's test of the policy on finding an incumbent.
Rejects ==policy = SessionPolicyRejectSecond

\* ------------------------------------------------------------------------
\* webrtc.PeerSession.Close, run by goroutine g on peer t
\* ------------------------------------------------------------------------

\* The peer a goroutine's Close call is closing: the incumbent when the call
\* is Acquire's kick, the goroutine's own peer otherwise.
CloseTarget(g) == IF pc[g] = "kick" THEN active ELSE PeerOf(g)

\* Where a goroutine continues when its Close call returns.
AfterClose(g) ==
    CASE pc[g] = "bye" -> "loop"
      [] pc[g] = "defer" -> "done"
      [] pc[g] = "run" -> "idle"
      [] OTHER -> pc[g]

\* The reason a goroutine's Close call was given: Acquire's kick (line 95 of
\* the manager), handleSignal's bye (line 230), the deferred Close of
\* HandleWS (line 108), the connection-state callback (line 171).
ReasonOf(g) ==
    CASE pc[g] = "kick" -> "replaced_by_new_session"
      [] pc[g] = "bye" -> "remote_bye"
      [] pc[g] = "defer" -> "session_ended"
      [] pc[g] = "run" -> "peer_connection_closed"
      [] OTHER -> "none"

\* Close's test of the latch: p.closed already set.
AlreadyClosed(t) == closed[t]

\* Lines 83-89: the latch.  A call that finds closed set returns at once; in
\* Acquire's kick the return continues with lines 97-100 and the unlock.
CloseLatch(g) ==
    LET t == CloseTarget(g) IN
    /\ cstep[g] = "latch"
    /\ IF AlreadyClosed(t)
       THEN /\ cstep' = [cstep EXCEPT ![g] = "none"]
            /\ UNCHANGED <<closed>>
            /\ IF pc[g] = "kick"
               THEN /\ Install(PeerOf(g))
                    /\ mgrMu' = Free
                    /\ pc' = [pc EXCEPT ![g] = "acquired"]
                    /\ acqResult' = [acqResult EXCEPT ![PeerOf(g)] = "ok"]
               ELSE /\ pc' = [pc EXCEPT ![g] = AfterClose(g)]
                    /\ UNCHANGED <<active, state, lastActive, mgrMu, acqResult>>
       ELSE /\ closed' = [closed EXCEPT ![t] = TRUE]
            /\ cstep' = [cstep EXCEPT ![g] = "sendErr"]
            /\ UNCHANGED <<active, state, lastActive, mgrMu, pc, acqResult>>
    /\ sent' = NoFrames
    /\ UNCHANGED <<track, mainVars, apiVars, storeVars, policy, pcState, wired, connState, effects, iceArg, relFound>>

\* Mutant of AfterSend: a send that failed ends the Close at Release.
AfterSendGiveUp(next, ok) == IF ok THEN next ELSE "release"

\* Lines 90-91: the error of sendSignal is discarded ("_ ="), so Close goes
\* on to its next statement whether the frame was written or not.
AfterSend(next, ok) == next

\* What a sendSignal leaves on the transport: the frame, or nothing when
\* the write failed.
Written(frame, ok) == IF ok THEN <<frame>> ELSE NoFrames

\* Line 90: sendSignal(error{reason}), its error ignored.
CloseSendErr(g) ==
    LET t == CloseTarget(g) IN
    /\ cstep[g] = "sendErr"
    /\ effects' = [effects EXCEPT ![t] = Append(@, "error")]
    /\ \E ok \in BOOLEAN :
         /\ sent' = Written(Frame(t, "error", ReasonOf(g)), ok)
         /\ cstep' = [cstep EXCEPT ![g] = AfterSend("sendBye", ok)]
    /\ UNCHANGED <<track, mainVars, apiVars, storeVars, policy, mgrMu, state, active, lastActive, closed,
                   pcState, wired, connState, pc, iceArg, acqResult, relFound>>

\* Line 91: sendSignal(bye), its error ignored.
CloseSendBye(g) ==
    LET t == CloseTarget(g) IN
    /\ cstep[g] = "sendBye"
    /\ effects' = [effects EXCEPT ![t] = Append(@, "bye")]
    /\ \E ok \in BOOLEAN :
         /\ sent' = Written(Frame(t, "bye", ""), ok)
         /\ cstep' = [cstep EXCEPT ![g] = AfterSend("pcClose", ok)]
    /\ UNCHANGED <<track, mainVars, apiVars, storeVars, policy, mgrMu, state, active, lastActive, closed,
                   pcState, wired, connState, pc, iceArg, acqResult, relFound>>

\* Lines 92-94: close the peer connection if there is one.
ClosePc(g) ==
    LET t == CloseTarget(g) IN
    /\ cstep[g] = "pcClose"
    /\ IF pcState[t] # "nil"
       THEN /\ pcState' = [pcState EXCEPT ![t] = "closed"]
            /\ effects' = [effects EXCEPT ![t] = Append(@, "pc_close")]
       ELSE UNCHANGED <<pcState, effects>>
    /\ sent' = NoFrames
    /\ cstep' = [cstep EXCEPT ![g] = "connClose"]
    /\ UNCHANGED <<track, mainVars, apiVars, storeVars, policy, mgrMu, state, active, lastActive, closed,
                   wired, connState, pc, iceArg, acqResult, relFound>>

\* Line 95: close the transport.
CloseConn(g) ==
    LET t == CloseTarget(g) IN
    /\ cstep[g] = "connClose"
    /\ connState' = [connState EXCEPT ![t] = "closed"]
    /\ effects' = [effects EXCEPT ![t] = Append(@, "conn_close")]
    /\ sent' = NoFrames
    /\ cstep' = [cstep EXCEPT ![g] = "release"]
    /\ UNCHANGED <<track, mainVars, apiVars, storeVars, policy, mgrMu, state, active, lastActive, closed,
                   pcState, wired, pc, iceArg, acqResult, relFound>>

\* Line 96: sessions.Release(p.id).  Release locks Manager.mu, a sync.Mutex:
\* the step waits until the mutex is free, whoever holds it.
CloseRelease(g) ==
    LET t == CloseTarget(g) IN
    /\ cstep[g] = "release"
    /\ mgrMu = Free
    /\ IF pc[g] = "kick"
       THEN \* Close returns into Acquire, lines 97-100 and the unlock
            /\ Install(PeerOf(g))
            /\ acqResult' = [acqResult EXCEPT ![PeerOf(g)] = "ok"]
            /\ pc' = [pc EXCEPT ![g] = "acquired"]
       ELSE /\ Release(ID(t))
            /\ pc' = [pc EXCEPT ![g] = AfterClose(g)]
            /\ UNCHANGED acqResult
    /\ relFound' = [relFound EXCEPT ![t] =
                       IF active = t THEN "match"
                       ELSE IF active = Nil THEN "empty" ELSE "other"]
    /\ effects' = [effects EXCEPT ![t] = Append(@, "release")]
    /\ sent' = NoFrames
    /\ cstep' = [cstep EXCEPT ![g] = "none"]
    /\ UNCHANGED <<track, mainVars, apiVars, storeVars, policy, mgrMu, closed, pcState, wired, connState, iceArg>>

\* ------------------------------------------------------------------------
\* webrtc.Service.HandleWS, one call per accepted transport
\* ------------------------------------------------------------------------

\* The upgrade has happened and HandleWS is called with the transport.
Accept(p) ==
    /\ pc[Handler(p)] = "idle"
    /\ connState' = [connState EXCEPT ![p] = "open"]
    /\ pc' = [pc EXCEPT ![Handler(p)] = "acquire"]
    /\ sent' = NoFrames
    /\ UNCHANGED <<track, mainVars, apiVars, storeVars, policy, mgrMu, state, active, lastActive, closed,
                   pcState, wired, effects, cstep, iceArg, acqResult, relFound>>

\* Manager.Acquire.  With no incumbent, or a rejected second peer, the whole
\* critical section is one step; with an incumbent to kick, the step takes
\* the mutex and enters the incumbent's Close with the mutex held.
Acquire(p) ==
    LET g == Handler(p) IN
    /\ pc[g] = "acquire"
    /\ mgrMu = Free
    /\ IF active = Nil
       THEN /\ Install(p)
            /\ acqResult' = [acqResult EXCEPT ![p] = "ok"]
            /\ pc' = [pc EXCEPT ![g] = "acquired"]
            /\ UNCHANGED <<mgrMu, cstep>>
       ELSE IF Rejects
       THEN /\ acqResult' = [acqResult EXCEPT ![p] = "err"]
            /\ pc' = [pc EXCEPT ![g] = "rejected"]
            /\ UNCHANGED <<mgrMu, cstep, active, state, lastActive>>
       ELSE /\ mgrMu' = g
            /\ pc' = [pc EXCEPT ![g] = "kick"]
            /\ cstep' = [cstep EXCEPT ![g] = "latch"]
            /\ UNCHANGED <<acqResult, active, state, lastActive>>
    /\ sent' = NoFrames
    /\ UNCHANGED <<track, mainVars, apiVars, storeVars, policy, closed, pcState, wired, connState, effects,
                   iceArg, relFound>>

\* Mutant of RejectFrames: the rejected transport is closed without a word.
RejectFramesNone(p) == NoFrames

\* Line 104: what HandleWS writes to a transport whose Acquire failed.
RejectFrames(p) == <<Frame(p, "error", "session already active")>>

\* Lines 103-106: the rejected transport gets the error frame and is closed.
RejectClose(p) ==
    /\ pc[Handler(p)] = "rejected"
    /\ sent' = RejectFrames(p)
    /\ connState' = [connState EXCEPT ![p] = "closed"]
    /\ pc' = [pc EXCEPT ![Handler(p)] = "done"]
    /\ UNCHANGED <<track, mainVars, apiVars, storeVars, policy, mgrMu, state, active, lastActive, closed,
                   pcState, wired, effects, cstep, iceArg, acqResult, relFound>>

\* initPeer.  It fails before a peer connection exists (line 142), fails
\* with ps.pc set and no callback registered (lines 147, 151), or succeeds;
\* a failure returns from HandleWS into the deferred Close.
InitPeer(p) ==
    LET g == Handler(p) IN
    /\ pc[g] = "acquired"
    /\ \E outcome \in {"no_pc", "pc_unwired", "ok"} :
         /\ pcState' = [pcState EXCEPT ![p] =
                          IF outcome = "no_pc" THEN @ ELSE "open"]
         /\ wired' = [wired EXCEPT ![p] = (outcome = "ok")]
         /\ pc' = [pc EXCEPT ![g] = IF outcome = "ok" THEN "loop" ELSE "defer"]
         /\ cstep' = [cstep EXCEPT ![g] =
                          IF outcome = "ok" THEN "none" ELSE "latch"]
    /\ sent' = NoFrames
    /\ UNCHANGED <<track, mainVars, apiVars, storeVars, policy, mgrMu, state, active, lastActive, closed,
                   connState, effects, iceArg, acqResult, relFound>>

\* What a peer can send besides bye: bytes that are not a JSON
\* SignalMessage, a message of a type handleSignal does not know (ping), an
\* offer without sdp, an offer, a candidate message without candidate, a
\* candidate.
SignalKinds ==
    {"invalid_json", "unknown", "offer_empty", "offer", "candidate_nil",
     "candidate"}

\* Mutant of handleSignal: an unknown type is accepted in silence.
handleSignalLenient(kind, ok) ==
    CASE kind = "offer_empty" -> "missing offer sdp"
      [] kind = "offer" -> IF ok THEN "" ELSE "pion"
      [] kind = "candidate_nil" -> "missing candidate"
      [] kind = "candidate" -> IF ok THEN "" ELSE "pion"
      [] OTHER -> ""

\* handleSignal, lines 206-235, for a message other than bye: the error it
\* returns, "" for nil; ok tells whether pion accepted the offer or the
\* candidate.
handleSignal(kind, ok) ==
    CASE kind = "offer_empty" -> "missing offer sdp"
      [] kind = "offer" -> IF ok THEN "" ELSE "pion"
      [] kind = "candidate_nil" -> "missing candidate"
      [] kind = "candidate" -> IF ok THEN "" ELSE "pion"
      [] OTHER -> "unknown signal type: ping"

\* Lines 127-134: the frames the loop writes for one message: the error
\* frame of a message that is not JSON, the answer to an offer, the error
\* frame of an error of handleSignal.
LoopFrames(p, kind, ok) ==
    IF kind = "invalid_json"
    THEN <<Frame(p, "error", "invalid json")>>
    ELSE LET err == handleSignal(kind, ok) IN
         IF err # "" THEN <<Frame(p, "error", err)>>
         ELSE IF kind = "offer" THEN <<Frame(p, "answer", "")>>
         ELSE NoFrames

\* Every message, with what pion makes of it.
AllSignals == SignalKinds \X BOOLEAN

\* The messages of a peer that keeps to the protocol and whose candidates
\* pion accepts: they are answered with no frame.
QuietSignals == {<<"candidate", TRUE>>}

\* Lines 121-135: a message (one of signals) is read from the open
\* transport, the session is Touched, and a message other than bye is
\* handled without leaving the loop.
LoopMessage(p, signals) ==
    /\ pc[Handler(p)] = "loop"
    /\ connState[p] = "open"
    /\ mgrMu = Free
    /\ Touch
    /\ sent' \in {LoopFrames(p, m[1], m[2]) : m \in signals}
    /\ UNCHANGED <<track, mainVars, apiVars, storeVars, policy, mgrMu, closed, pcState, wired, connState,
                   effects, pc, cstep, iceArg, acqResult, relFound>>

\* Lines 121-125 and 229-231: a bye is read, the session is Touched and
\* handleSignal calls Close("remote_bye").
LoopBye(p) ==
    LET g == Handler(p) IN
    /\ pc[g] = "loop"
    /\ connState[p] = "open"
    /\ mgrMu = Free
    /\ Touch
    /\ pc' = [pc EXCEPT ![g] = "bye"]
    /\ cstep' = [cstep EXCEPT ![g] = "latch"]
    /\ sent' = NoFrames
    /\ UNCHANGED <<track, mainVars, apiVars, storeVars, policy, mgrMu, closed, pcState, wired, connState,
                   effects, iceArg, acqResult, relFound>>

\* Lines 117-124: the context is done or the read fails; HandleWS returns
\* and the deferred Close("session_ended") runs.
LoopExit(p) ==
    LET g == Handler(p) IN
    /\ pc[g] = "loop"
    /\ pc' = [pc EXCEPT ![g] = "defer"]
    /\ cstep' = [cstep EXCEPT ![g] = "latch"]
    /\ sent' = NoFrames
    /\ UNCHANGED <<track, mainVars, apiVars, storeVars, policy, mgrMu, state, active, lastActive, closed,
                   pcState, wired, connState, effects, iceArg, acqResult, relFound>>

\* ------------------------------------------------------------------------
\* the peer-connection callbacks registered by initPeer
\* ------------------------------------------------------------------------

\* OnConnectionStateChange with Failed (the connection failed) or Closed (it
\* was closed): the callback calls Close("peer_connection_closed").
ConnCbFire(p) ==
    LET g == ConnCb(p) IN
    /\ pc[g] = "idle"
    /\ wired[p]
    /\ pcState[p] \in {"open", "closed"}
    /\ pc' = [pc EXCEPT ![g] = "run"]
    /\ cstep' = [cstep EXCEPT ![g] = "latch"]
    /\ sent' = NoFrames
    /\ UNCHANGED <<track, mainVars, apiVars, storeVars, policy, mgrMu, state, active, lastActive, closed,
                   pcState, wired, connState, effects, iceArg, acqResult, relFound>>

\* OnICEConnectionStateChange, lines 160-168, up to the call of SetState:
\* Connected and Completed ask for Connected, Disconnected and Failed for
\* Connecting.
IceCbFire(p) ==
    LET g == IceCb(p) IN
    /\ pc[g] = "idle"
    /\ wired[p]
    /\ pcState[p] = "open"
    /\ \E st \in {StateConnected, StateConnecting} :
         iceArg' = [iceArg EXCEPT ![p] = st]
    /\ pc' = [pc EXCEPT ![g] = "set"]
    /\ sent' = NoFrames
    /\ UNCHANGED <<track, mainVars, apiVars, storeVars, policy, mgrMu, state, active, lastActive, closed,
                   pcState, wired, connState, effects, cstep, acqResult, relFound>>

\* The callback's call of Manager.SetState.
IceCbSetState(p) ==
    LET g == IceCb(p) IN
    /\ pc[g] = "set"
    /\ mgrMu = Free
    /\ SetState(iceArg[p])
    /\ iceArg' = [iceArg EXCEPT ![p] = "none"]
    /\ pc' = [pc EXCEPT ![g] = "idle"]
    /\ sent' = NoFrames
    /\ UNCHANGED <<track, mainVars, apiVars, storeVars, policy, mgrMu, closed, pcState, wired, connState,
                   effects, cstep, acqResult, relFound>>

\* ------------------------------------------------------------------------
\* initPeer's OnTrack callback: the remote-audio loop, lines 174-189
\* ------------------------------------------------------------------------

\* ---- bounds ----
MaxPackets == 3

\* The kinds of remote track and the RTP packets a remote track carries.
TrackKinds == {"audio", "video"}
Packets == 1..2

\* No remote track has arrived.  kind is remote.Kind(); pkt the packet in
\* hand; reads the calls of ReadRTP; packetsIn and packetsOut the counters
\* metrics.WebRTCPacketsIn and WebRTCPacketsOut; touches the calls of
\* sessions.Touch; offered the packets passed to outTrack.WriteRTP and
\* out those it accepted; writeFailed whether a WriteRTP has failed; step
\* what the callback did last.
NoTrack ==
    [pos |-> "idle", kind |-> "none", pkt |-> 0, reads |-> 0,
     packetsIn |-> 0, packetsOut |-> 0, touches |-> 0, offered |-> <<>>,
     out |-> <<>>, writeFailed |-> FALSE, step |-> "none"]

\* Lines 175-177: pion calls the callback with a remote track; a track that
\* is not audio is left alone.
OnTrack ==
    /\ track.pos = "idle"
    /\ \E p \in Peers : wired[p] /\ pcState[p] = "open"
    /\ \E kind \in TrackKinds :
          track' = [track EXCEPT !.kind = kind, !.step = "on_track",
                                 !.pos = IF kind = "audio" THEN "read"
                                         ELSE "returned"]
    /\ UNCHANGED <<mainVars, apiVars, storeVars, policy, mgrMu, state, active,
                   lastActive, closed, pcState, wired, connState, effects, pc,
                   cstep, iceArg, acqResult, relFound, sent>>

\* Lines 179-183: ReadRTP; an error returns from the callback, a packet
\* bumps the inbound counter.  The remote side sends MaxPackets packets at
\* most before its track ends.
TrackRead ==
    /\ track.pos = "read"
    /\ \/ /\ track.reads < MaxPackets
          /\ \E pkt \in Packets :
                track' = [track EXCEPT !.pkt = pkt, !.reads = @ + 1,
                                       !.packetsIn = @ + 1,
                                       !.step = "read", !.pos = "touch"]
       \/ track' = [track EXCEPT !.pkt = 0, !.reads = @ + 1,
                                 !.step = "read_error", !.pos = "returned"]
    /\ UNCHANGED <<mainVars, apiVars, storeVars, policy, mgrMu, state, active,
                   lastActive, closed, pcState, wired, connState, effects, pc,
                   cstep, iceArg, acqResult, relFound, sent>>

\* Line 184: sessions.Touch(), which waits for Manager.mu.
TrackTouch ==
    /\ track.pos = "touch"
    /\ mgrMu = Free
    /\ Touch
    /\ track' = [track EXCEPT !.touches = @ + 1, !.step = "touch",
                              !.pos = "write"]
    /\ UNCHANGED <<mainVars, apiVars, storeVars, policy, mgrMu, closed, pcState,
                   wired, connState, effects, pc, cstep, iceArg, acqResult,
                   relFound, sent>>

\* Mutant of AfterWrite: a failed write returns from the callback.
AfterWriteStop(ok) == IF ok THEN "read" ELSE "returned"

\* Lines 185-188: the error of WriteRTP only decides whether the outbound
\* counter is bumped; the for loop goes round either way.
AfterWrite(ok) == "read"

\* Lines 185-187: the packet is passed to outTrack.WriteRTP, which accepts
\* it or fails; an accepted packet bumps the outbound counter.
TrackWrite ==
    /\ track.pos = "write"
    /\ \E ok \in BOOLEAN :
          track' = [track EXCEPT
                      !.offered = Append(@, track.pkt),
                      !.out = IF ok THEN Append(@, track.pkt) ELSE @,
                      !.packetsOut = IF ok THEN @ + 1 ELSE @,
                      !.writeFailed = @ \/ ~ok,
                      !.step = IF ok THEN "write" ELSE "write_error",
                      !.pos = AfterWrite(ok)]
    /\ UNCHANGED <<mainVars, apiVars, storeVars, policy, mgrMu, state, active,
                   lastActive, closed, pcState, wired, connState, effects, pc,
                   cstep, iceArg, acqResult, relFound, sent>>

NextTrack ==
    \/ OnTrack
    \/ TrackRead
    \/ TrackTouch
    \/ TrackWrite

InitSession ==
    /\ InitManager
    /\ closed = [p \in Peers |-> FALSE]
    /\ pcState = [p \in Peers |-> "nil"]
    /\ wired = [p \in Peers |-> FALSE]
    /\ connState = [p \in Peers |-> "none"]
    /\ effects = [p \in Peers |-> <<>>]
    /\ pc = [g \in Goroutines |-> "idle"]
    /\ cstep = [g \in Goroutines |-> "none"]
    /\ iceArg = [p \in Peers |-> "none"]
    /\ acqResult = [p \in Peers |-> "none"]
    /\ relFound = [p \in Peers |-> "none"]
    /\ sent = NoFrames
    /\ track = NoTrack

NextSession ==
    \/ \E p \in Peers : Accept(p)
    \/ \E p \in Peers : Acquire(p)
    \/ \E p \in Peers : RejectClose(p)
    \/ \E p \in Peers : InitPeer(p)
    \/ \E p \in Peers : LoopMessage(p, QuietSignals)
    \/ \E p \in Peers : LoopBye(p)
    \/ \E p \in Peers : LoopExit(p)
    \/ \E p \in Peers : ConnCbFire(p)
    \/ \E p \in Peers : IceCbFire(p)
    \/ \E p \in Peers : IceCbSetState(p)
    \/ \E g \in Goroutines : CloseLatch(g)
    \/ \E g \in Goroutines : CloseSendErr(g)
    \/ \E g \in Goroutines : CloseSendBye(g)
    \/ \E g \in Goroutines : ClosePc(g)
    \/ \E g \in Goroutines : CloseConn(g)
    \/ \E g \in Goroutines : CloseRelease(g)

\* The same goroutines, with peers that send every kind of message.
NextSignal ==
    \/ \E p \in Peers : Accept(p)
    \/ \E p \in Peers : Acquire(p)
    \/ \E p \in Peers : RejectClose(p)
    \/ \E p \in Peers : InitPeer(p)
    \/ \E p \in Peers : LoopMessage(p, AllSignals)
    \/ \E p \in Peers : LoopBye(p)
    \/ \E p \in Peers : LoopExit(p)
    \/ \E p \in Peers : ConnCbFire(p)
    \/ \E p \in Peers : IceCbFire(p)
    \/ \E p \in Peers : IceCbSetState(p)
    \/ \E g \in Goroutines : CloseLatch(g)
    \/ \E g \in Goroutines : CloseSendErr(g)
    \/ \E g \in Goroutines : CloseSendBye(g)
    \/ \E g \in Goroutines : ClosePc(g)
    \/ \E g \in Goroutines : CloseConn(g)
    \/ \E g \in Goroutines : CloseRelease(g)

\* ------------------------------------------------------------------------
\* storage: strings, sanitizeToken, extFromContentType
\* ------------------------------------------------------------------------

\* A string is the sequence of its characters.
Lower == {"a", "b", "c", "d", "e", "f", "g", "h", "i", "j", "k", "l", "m",
          "n", "o", "p", "q", "r", "s", "t", "u", "v", "w", "x", "y", "z"}
Upper == {"A", "B", "C", "D", "E", "F", "G", "H", "I", "J", "K", "L", "M",
          "N", "O", "P", "Q", "R", "S", "T", "U", "V", "W", "X", "Y", "Z"}
Digit == {"0", "1", "2", "3", "4", "5", "6", "7", "8", "9"}
Space == {" ", "\t", "\n", "\r"}

\* safeToken = [^a-zA-Z0-9._-]: the characters it does not match.
SafeChar == Lower \cup Upper \cup Digit \cup {".", "_", "-"}

RECURSIVE TrimLeft(_)
TrimLeft(s) ==
    IF s # <<>> /\ Head(s) \in Space THEN TrimLeft(Tail(s)) ELSE s

RECURSIVE TrimRight(_)
TrimRight(s) ==
    IF s # <<>> /\ s[Len(s)] \in Space
    THEN TrimRight(SubSeq(s, 1, Len(s) - 1))
    ELSE s

\* strings.TrimSpace
TrimSpace(s) == TrimRight(TrimLeft(s))

\* Mutant of sanitizeToken: the id is trimmed and nothing is replaced.
sanitizeTokenTrimOnly(in) == TrimSpace(in)

\* sanitizeToken: trim, then replace every unsafe character by "_".
sanitizeToken(in) ==
    LET trimmed == TrimSpace(in) IN
    [i \in 1..Len(trimmed) |->
        IF trimmed[i] \in SafeChar THEN trimmed[i] ELSE "_"]

\* strings.ToLower on the letters the model's content types use.
LowerOf(ch) ==
    CASE ch = "P" -> "p" [] ch = "N" -> "n" [] ch = "G" -> "g"
      [] ch = "J" -> "j" [] ch = "E" -> "e"
      [] OTHER -> ch
ToLower(s) == [i \in 1..Len(s) |-> LowerOf(s[i])]

\* strings.Contains
Contains(s, sub) ==
    \E i \in 1..(Len(s) - Len(sub) + 1) : SubSeq(s, i, i + Len(sub) - 1) = sub

\* extFromContentType
extFromContentType(contentType) ==
    LET ct == ToLower(contentType) IN
    IF Contains(ct, <<"p", "n", "g">>) THEN <<".", "p", "n", "g">>
    ELSE IF Contains(ct, <<"j", "p", "e", "g">>) \/ Contains(ct, <<"j", "p", "g">>)
    THEN <<".", "j", "p", "g">>
    ELSE <<".", "b", "i", "n">>

\* %d of an integer.
RECURSIVE Decimal(_)
Decimal(n) ==
    LET d == <<"0", "1", "2", "3", "4", "5", "6", "7", "8", "9">>[(n % 10) + 1] IN
    IF n < 0 THEN <<"-">> \o Decimal(0 - n)
    ELSE IF n < 10 THEN <<d>> ELSE Append(Decimal(n \div 10), d)

\* sha256.Sum256 and hex.EncodeToString: a digest that tells payloads apart.
SHA256(payload) == <<"sha256", payload>>

\* A path is the sequence of its elements.  s.framesDir is data/frames.
FramesDir == << <<"d", "a", "t", "a">>, <<"f", "r", "a", "m", "e", "s">> >>

\* The elements of a name, split at the separators.
RECURSIVE SplitPath(_)
SplitPath(s) ==
    IF \E i \in 1..Len(s) : s[i] = "/"
    THEN LET i == CHOOSE i \in 1..Len(s) :
                     s[i] = "/" /\ \A j \in 1..(i - 1) : s[j] # "/"
         IN <<SubSeq(s, 1, i - 1)>> \o SplitPath(SubSeq(s, i + 1, Len(s)))
    ELSE <<s>>

\* filepath.Clean, element by element: empty elements and "." are dropped,
\* ".." removes the element before it.
RECURSIVE CleanPath(_, _)
CleanPath(path, elems) ==
    IF elems = <<>> THEN path
    ELSE LET e == Head(elems) IN
         CleanPath(IF e = <<>> \/ e = <<".">> THEN path
                   ELSE IF e = <<".", ".">> /\ path # <<>>
                        THEN SubSeq(path, 1, Len(path) - 1)
                        ELSE Append(path, e),
                   Tail(elems))

\* filepath.Join(s.framesDir, name), line 131.
JoinPath(dir, name) == CleanPath(dir, SplitPath(name))

\* Lines 106-109: the sanitized frame id, or frame-<UnixNano> for an empty
\* one.
CleanID(frameID, n) ==
    LET clean == sanitizeToken(frameID) IN
    IF clean = <<>> THEN <<"f", "r", "a", "m", "e", "-">> \o Decimal(n)
    ELSE clean

\* Lines 129-130: fmt.Sprintf("%s_%d%s", cleanID, UnixNano, ext).
FileName(cleanID, stamp, contentType) ==
    cleanID \o <<"_">> \o Decimal(stamp) \o extFromContentType(contentType)

\* ------------------------------------------------------------------------
\* storage.FrameStore
\* ------------------------------------------------------------------------

\* ---- bounds ----
NumClients == 2
NumKeys == 2
MaxTTL == 1
MaxIdemMax == 2
MaxSaves == 3
MaxWriteErrs == 1

Clients == 1..NumClients
\* Idempotency keys are opaque: key i of the model, and NoKey for "".
NoKey == 0
Keys == 1..NumKeys
NoTime == -1
NoReq == [call |-> FALSE]
NoRet == [returned |-> FALSE]
NoSweep == [swept |-> FALSE]

\* The zero FrameMeta.
NoMeta ==
    [FrameID |-> <<>>, Timestamp |-> <<>>, IdempotencyKey |-> NoKey,
     FileName |-> <<>>, Path |-> <<>>, Size |-> 0, ContentType |-> <<>>,
     SHA256 |-> <<>>, ReceivedAt |-> 0, Duplicate |-> FALSE]

\* What the callers send: frame id, timestamp, idempotency key, content
\* type and payload.  Two of the calls share a key and differ in everything
\* else, one carries the other key, one carries none.
Uploads ==
    {[frameID |-> <<"f">>, timestamp |-> <<>>, idem |-> 1,
      contentType |-> <<"i", "/", "P", "N", "G">>, payload |-> <<1>>],
     [frameID |-> <<" ", ".", ".", "/", "b", ":">>, timestamp |-> <<"t">>,
      idem |-> 1,
      contentType |-> <<"i", "/", "j", "p", "e", "g">>, payload |-> <<2, 2>>],
     [frameID |-> <<"f">>, timestamp |-> <<>>, idem |-> NumKeys,
      contentType |-> <<"i", "/", "P", "N", "G">>, payload |-> <<1>>],
     [frameID |-> <<" ", "\t">>, timestamp |-> <<"t">>, idem |-> NoKey,
      contentType |-> <<"o", "c", "t">>, payload |-> <<>>]}

\* The cache as the pair of its map and its insertion-order list.
Cache == [m |-> byIdempotency, o |-> idemOrder]

\* removeIdemEntryLocked: drop the key from the map and its element from
\* the list; a key that is not in the map changes nothing.
removeIdemEntryLocked(c, key) ==
    IF key \notin DOMAIN c.m
    THEN c
    ELSE [m |-> [k \in DOMAIN c.m \ {key} |-> c.m[k]],
          o |-> SelectSeq(c.o, LAMBDA k : k # key)]

\* Mutant of OverCapacity: the loop stops one entry too late.
OverCapacityOffByOne(c) == Cardinality(DOMAIN c.m) > idemMax + 1

\* addIdemEntryLocked's loop condition: len(s.byIdempotency) > s.idemMax.
OverCapacity(c) == Cardinality(DOMAIN c.m) > idemMax

\* Mutant of Front: the element pushed last.
FrontNewest(o) == o[Len(o)]

\* s.idemOrder.Front() (line 160): the element that was pushed first.
Front(o) == Head(o)

\* addIdemEntryLocked's loop: evict from the front until within idemMax.
RECURSIVE EvictLoop(_)
EvictLoop(c) ==
    IF OverCapacity(c) /\ c.o # <<>>
    THEN EvictLoop(removeIdemEntryLocked(c, Front(c.o)))
    ELSE c

\* addIdemEntryLocked: push the key, store the entry, then evict.
addIdemEntryLocked(c, key, meta, t) ==
    EvictLoop([m |-> [k \in DOMAIN c.m \cup {key} |->
                        IF k = key THEN [frameMeta |-> meta, seenAt |-> t]
                        ELSE c.m[k]],
               o |-> Append(c.o, key)])

\* Mutant of Expired: an entry exactly TTL old already counts as expired.
ExpiredAtTTL(t, seenAt) == t - seenAt >= idemTTL

\* now.Sub(entry.seenAt) > s.idemTTL (lines 93 and 124).
Expired(t, seenAt) == t - seenAt > idemTTL

\* Mutant of DuplicateOf: the copy is returned unmarked.
DuplicateOfUnmarked(entry) == entry.frameMeta

\* Lines 120-122: a copy of the cached meta, marked as a duplicate.
DuplicateOf(entry) == [entry.frameMeta EXCEPT !.Duplicate = TRUE]

\* Mutant of Live: an entry exactly TTL old no longer counts as live.
LiveBeforeTTL(t, seenAt) == t - seenAt < idemTTL

\* now.Sub(existing.seenAt) <= s.idemTTL (line 119).
Live(t, seenAt) == t - seenAt <= idemTTL

\* cleanupExpired's loop: remove every entry that is expired at t.
Sweep(c, t) ==
    LET keep == {k \in DOMAIN c.m : ~Expired(t, c.m[k].seenAt)} IN
    [m |-> [k \in keep |-> c.m[k]],
     o |-> SelectSeq(c.o, LAMBDA k : k \in keep)]

\* NewFrameStore: the TTL and the capacity are positive, the cache is empty.
InitStoreWith(ttl, max) ==
    /\ now = 0
    /\ idemTTL = ttl
    /\ idemMax = max
    /\ byIdempotency = <<>>
    /\ idemOrder = <<>>
    /\ last = NoMeta
    /\ count = 0
    /\ files = <<>>
    /\ nanos = 0
    /\ req = [c \in Clients |-> NoReq]
    /\ sweepNow = NoTime
    /\ started = 0
    /\ lastRet = NoRet
    /\ lastSweep = NoSweep
    /\ orig = [k \in Keys |-> NoMeta]
    /\ evicted = {}
    /\ keysSeen = {}
    /\ writeErrs = 0
    /\ firstAt = NoTime

InitStore ==
    \E ttl \in 1..MaxTTL, max \in 1..MaxIdemMax : InitStoreWith(ttl, max)

\* Time passes.
Tick ==
    /\ now < MaxTime
    /\ now' = now + 1
    /\ lastSweep' = NoSweep
    /\ UNCHANGED <<mainVars, apiVars, sessVars, idemTTL, idemMax, byIdempotency, idemOrder, last,
                   count, files, nanos, req, sweepNow, started, lastRet,
                   orig, evicted, keysSeen, writeErrs, firstAt>>

\* SaveFrame, lines 106-114, before the lock: the id is sanitized (an empty
\* one becomes frame-<nanos>), an empty timestamp becomes the current time,
\* and now is read.  The callers are interchangeable, so a new call takes
\* the lowest free slot.
SaveFrameBegin(c) ==
    /\ req[c] = NoReq
    /\ \A d \in Clients : d < c => req[d] # NoReq
    /\ started < MaxSaves
    /\ \E u \in Uploads :
         req' = [req EXCEPT ![c] =
                   [frameID |-> u.frameID,
                    cleanID |-> CleanID(u.frameID, nanos),
                    timestamp |-> IF u.timestamp = <<>>
                                  THEN <<"T">> \o Decimal(now)
                                  ELSE u.timestamp,
                    idem |-> u.idem,
                    contentType |-> u.contentType,
                    payload |-> u.payload,
                    now |-> now]]
    /\ started' = started + 1
    /\ lastSweep' = NoSweep
    /\ UNCHANGED <<mainVars, apiVars, sessVars, now, idemTTL, idemMax, byIdempotency, idemOrder,
                   last, count, files, nanos, sweepNow, lastRet,
                   orig, evicted, keysSeen, writeErrs, firstAt>>

\* The meta SaveFrame assembles for call r and file name `name`.
NewMeta(r, name) ==
    [FrameID |-> r.frameID, Timestamp |-> r.timestamp,
     IdempotencyKey |-> r.idem, FileName |-> name,
     Path |-> JoinPath(FramesDir, name), Size |-> Len(r.payload),
     ContentType |-> r.contentType, SHA256 |-> SHA256(r.payload),
     ReceivedAt |-> r.now, Duplicate |-> FALSE]

\* What a completed call leaves for the observer: the call, what it
\* returned, whether it wrote a file, when it returned, and what was known
\* of its key before it ran.
Observed(c, r, err, meta, wrote) ==
    /\ firstAt' = IF firstAt = NoTime THEN r.now ELSE firstAt
    /\ lastRet' = [idem |-> r.idem, payload |-> r.payload, err |-> err,
                   meta |-> meta, wrote |-> wrote, at |-> now,
                   prior |-> IF r.idem = NoKey THEN NoMeta ELSE orig[r.idem],
                   priorEvicted |-> r.idem \in evicted]
    /\ keysSeen' = keysSeen \cup {r.idem}

\* Mutant of CacheAfterHit: a hit refreshes the entry's seenAt.
CacheAfterHitRefreshed(c, key, t) ==
    [c EXCEPT !.m = [c.m EXCEPT ![key] = [@ EXCEPT !.seenAt = t]]]

\* Lines 119-123: a hit copies the meta out of the entry and returns; it
\* writes neither the entry nor the list.
CacheAfterHit(c, key, t) == c

\* SaveFrame, lines 115-154, under the store lock: a live entry for the key
\* is returned as a duplicate.
SaveFrameDuplicate(c) ==
    LET r == req[c] IN
    /\ r # NoReq
    /\ r.idem # NoKey
    /\ r.idem \in DOMAIN byIdempotency
    /\ Live(r.now, byIdempotency[r.idem].seenAt)
    /\ Observed(c, r, FALSE, DuplicateOf(byIdempotency[r.idem]), FALSE)
    /\ byIdempotency' = CacheAfterHit(Cache, r.idem, r.now).m
    /\ idemOrder' = CacheAfterHit(Cache, r.idem, r.now).o
    /\ req' = [req EXCEPT ![c] = NoReq]
    /\ lastSweep' = NoSweep
    /\ UNCHANGED <<mainVars, apiVars, sessVars, now, idemTTL, idemMax,
                   last, count, files, nanos, sweepNow, started,
                   orig, evicted, writeErrs>>

\* Mutant of CountAfterSave: a save is not counted.
CountAfterSaveSame == count

\* s.count++ (line 148).
CountAfterSave == count + 1

\* time.Now().UnixNano() at line 130, read after the reading nanos: the
\* wall clock has moved on, or it reads the same value again (a coarse
\* clock, or one that was stepped back).
UnixNano == IF nanos = 0 THEN {1} ELSE {nanos, nanos + 1}

\* What os.WriteFile can leave of a payload when it fails after it has
\* created (and truncated) the file: any proper prefix, or nothing of an
\* empty one.
Truncated(payload) ==
    {SubSeq(payload, 1, n) : n \in 0..(Len(payload) - 1)} \cup {<<>>}

\* SaveFrame, lines 115-154, under the store lock, with no live entry for
\* the key: an expired entry is removed, the file is written, and on
\* success last, count and the cache are updated.  os.WriteFile succeeds,
\* or (at most MaxWriteErrs times) fails: before it has created the file,
\* or after, leaving a truncated file under the name.
SaveFrameWrite(c) ==
    LET r == req[c] IN
    /\ r # NoReq
    /\ ~(/\ r.idem # NoKey
         /\ r.idem \in DOMAIN byIdempotency
         /\ Live(r.now, byIdempotency[r.idem].seenAt))
    /\ \E stamp \in UnixNano :
       LET c1 == IF /\ r.idem # NoKey
                    /\ r.idem \in DOMAIN byIdempotency
                    /\ Expired(r.now, byIdempotency[r.idem].seenAt)
                 THEN removeIdemEntryLocked(Cache, r.idem)
                 ELSE Cache
           name == FileName(r.cleanID, stamp, r.contentType)
           meta == NewMeta(r, name)
           c2 == IF r.idem # NoKey
                 THEN addIdemEntryLocked(c1, r.idem, meta, r.now)
                 ELSE c1
       IN
       \/ /\ nanos' = stamp
          /\ UNCHANGED writeErrs
          /\ files' = [n \in DOMAIN files \cup {name} |->
                         IF n = name THEN r.payload ELSE files[n]]
          /\ last' = meta
          /\ count' = CountAfterSave
          /\ byIdempotency' = c2.m
          /\ idemOrder' = c2.o
          /\ orig' = IF r.idem # NoKey
                     THEN [orig EXCEPT ![r.idem] = meta]
                     ELSE orig
          /\ evicted' = (evicted \cup (DOMAIN c1.m \ DOMAIN c2.m)) \ {r.idem}
          /\ Observed(c, r, FALSE, meta, TRUE)
       \/ /\ writeErrs < MaxWriteErrs
          /\ writeErrs' = writeErrs + 1
          /\ byIdempotency' = c1.m
          /\ idemOrder' = c1.o
          /\ Observed(c, r, TRUE, NoMeta, FALSE)
          /\ \/ UNCHANGED <<files, nanos>>
             \/ /\ nanos' = stamp
                /\ \E part \in Truncated(r.payload) :
                     files' = [n \in DOMAIN files \cup {name} |->
                                 IF n = name THEN part ELSE files[n]]
          /\ UNCHANGED <<last, count, orig, evicted>>
    /\ req' = [req EXCEPT ![c] = NoReq]
    /\ lastSweep' = NoSweep
    /\ UNCHANGED <<mainVars, apiVars, sessVars, now, idemTTL, idemMax, sweepNow, started>>

\* The ticker of cleanupLoop (line 82): its first tick comes one period
\* after NewFrameStore.
SweepPeriod == 1

\* cleanupLoop line 85: on a tick, now is read before cleanupExpired takes
\* the lock.
CleanupBegin ==
    /\ sweepNow = NoTime
    /\ now >= SweepPeriod
    /\ sweepNow' = now
    /\ lastSweep' = NoSweep
    /\ UNCHANGED <<mainVars, apiVars, sessVars, now, idemTTL, idemMax, byIdempotency, idemOrder,
                   last, count, files, nanos, req, started, lastRet,
                   orig, evicted, keysSeen, writeErrs, firstAt>>

\* cleanupExpired under the store lock.
cleanupExpired ==
    /\ sweepNow # NoTime
    /\ LET c1 == Sweep(Cache, sweepNow) IN
       /\ byIdempotency' = c1.m
       /\ idemOrder' = c1.o
       /\ lastSweep' = IF DOMAIN c1.m = DOMAIN byIdempotency
                        THEN NoSweep
                        ELSE [removed |-> DOMAIN byIdempotency \ DOMAIN c1.m,
                              kept |-> DOMAIN c1.m]
    /\ sweepNow' = NoTime
    /\ UNCHANGED <<mainVars, apiVars, sessVars, now, idemTTL, idemMax, last, count, files, nanos,
                   req, started, lastRet, orig, evicted, keysSeen, writeErrs, firstAt>>

NextStore ==
    \/ Tick
    \/ \E c \in Clients : SaveFrameBegin(c)
    \/ \E c \in Clients : SaveFrameDuplicate(c)
    \/ \E c \in Clients : SaveFrameWrite(c)
    \/ CleanupBegin
    \/ cleanupExpired

\* ------------------------------------------------------------------------
\* The naming of a frame file: SaveFrame lines 106-109 and 129-131
\* ------------------------------------------------------------------------

\* ---- bounds ----
MaxIdLen == 3

NoName == [named |-> FALSE]

\* Frame ids: every string of up to MaxIdLen of these characters.
IdChars == {"a", "Z", "7", ".", "-", "/", "\\", " "}
FrameIDs == UNION {[1..n -> IdChars] : n \in 0..MaxIdLen}

\* Content types, as the header or the multipart part gives them.
ContentTypes ==
    {<<>>,
     <<"i", "/", "P", "N", "G">>,
     <<"i", "/", "j", "p", "e", "g">>,
     <<"J", "P", "G">>,
     <<"o", "c", "t">>,
     <<"p", "n", "/", "g", "j", "p", "e">>,
     <<"j", "p", "g", "+", "p", "n", "g">>}

\* Readings of the wall clock.
NameStamps == {-1, 0, 12}

InitName ==
    /\ nameIn \in [frameID : FrameIDs, contentType : ContentTypes,
                   nanos : NameStamps]
    /\ nameOut = NoName

\* cleanID, name and fullPath as SaveFrame computes them.
FormatName ==
    /\ nameOut = NoName
    /\ LET name == FileName(CleanID(nameIn.frameID, nameIn.nanos),
                            nameIn.nanos, nameIn.contentType)
       IN nameOut' = [name |-> name, path |-> JoinPath(FramesDir, name)]
    /\ UNCHANGED <<mainVars, sessVars, storeVars, nameIn, limiters, limTTL, maxEntries,
                   limSweep, cfg, hreq, served>>

NextName == FormatName

\* ------------------------------------------------------------------------
\* httpapi.Limiter
\* ------------------------------------------------------------------------

\* ---- bounds ----
NumIPs == 3
MaxLimTTL == 1
MaxLimEntries == 2
\* cfg.UploadRatePerSec, cfg.UploadRateBurst, cfg.WSRatePerSec and
\* cfg.WSRateBurst, in tokens per tick of the clock and tokens.
UploadRatePerSec == 1
UploadRateBurst == 2
WSRatePerSec == 1
WSRateBurst == 1

\* Client addresses, as clientIP returns them.
IPs == 1..NumIPs

Min(a, b) == IF a < b THEN a ELSE b
Max(a, b) == IF a > b THEN a ELSE b

\* rate.NewLimiter(rate.Limit(rps), burst): a full bucket.
NewBucket(rps, burst) ==
    [limit |-> rps, burst |-> burst, tokens |-> burst, last |-> 0]

\* rate.Limiter.Allow at time t: the bucket is refilled for the time since
\* the last token was taken, and one token is taken if there is one; a
\* refusal leaves the bucket as it was.
BucketAllow(b, t) ==
    LET tokens == Min(b.burst, b.tokens + Max(t - b.last, 0) * b.limit) IN
    IF tokens >= 1
    THEN [ok |-> TRUE, bucket |-> [b EXCEPT !.tokens = tokens - 1, !.last = t]]
    ELSE [ok |-> FALSE, bucket |-> b]

\* Mutant of TableFull: one entry more is let in.
TableFullOffByOne(tbl) == Cardinality(DOMAIN tbl) > maxEntries

\* Line 253: len(l.limiters) >= l.maxEntries.
TableFull(tbl) == Cardinality(DOMAIN tbl) >= maxEntries

\* Mutant of AllowLocked: a full table makes room for the new key by
\* discarding an entry.
AllowLockedDiscarding(tbl, ip, rps, burst, t, tnow) ==
    LET kept == IF ip \notin DOMAIN tbl /\ TableFull(tbl)
                THEN DOMAIN tbl \ {CHOOSE k \in DOMAIN tbl : TRUE}
                ELSE DOMAIN tbl
        b == IF ip \in DOMAIN tbl THEN tbl[ip].limiter
                                  ELSE NewBucket(rps, burst)
        r == BucketAllow(b, tnow)
    IN [ok |-> r.ok, full |-> FALSE,
        tbl |-> [k \in kept \cup {ip} |->
                   IF k = ip THEN [limiter |-> r.bucket, lastSeen |-> t]
                   ELSE tbl[k]]]

\* Mutant of AllowLocked: the bucket of a known key takes the rate and the
\* burst of the route that asks.
AllowLockedPerRoute(tbl, ip, rps, burst, t, tnow) ==
    IF ip \notin DOMAIN tbl /\ TableFull(tbl)
    THEN [ok |-> FALSE, full |-> TRUE, tbl |-> tbl]
    ELSE LET b == IF ip \in DOMAIN tbl
                  THEN [tbl[ip].limiter EXCEPT !.limit = rps, !.burst = burst]
                  ELSE NewBucket(rps, burst)
             r == BucketAllow(b, tnow)
         IN [ok |-> r.ok, full |-> FALSE,
             tbl |-> [k \in DOMAIN tbl \cup {ip} |->
                        IF k = ip THEN [limiter |-> r.bucket, lastSeen |-> t]
                        ELSE tbl[k]]]

\* Limiter.allow under the lock (lines 251-270), called with the now read
\* at line 248 while the clock shows tnow: a new key is refused when the
\* table is full; otherwise the entry is created if need be, its lastSeen
\* set, and its bucket asked.
AllowLocked(tbl, ip, rps, burst, t, tnow) ==
    IF ip \notin DOMAIN tbl /\ TableFull(tbl)
    THEN [ok |-> FALSE, full |-> TRUE, tbl |-> tbl]
    ELSE LET b == IF ip \in DOMAIN tbl THEN tbl[ip].limiter
                                       ELSE NewBucket(rps, burst)
             r == BucketAllow(b, tnow)
         IN [ok |-> r.ok, full |-> FALSE,
             tbl |-> [k \in DOMAIN tbl \cup {ip} |->
                        IF k = ip THEN [limiter |-> r.bucket, lastSeen |-> t]
                        ELSE tbl[k]]]

\* Line 285: now.Sub(entry.lastSeen) > l.ttl.
Idle(t, lastSeen) == t - lastSeen > limTTL

\* NewLimiter: an empty table; ttl and maxEntries are positive.
InitLimiterWith(ttl, max) ==
    /\ limiters = <<>>
    /\ limTTL = ttl
    /\ maxEntries = max
    /\ limSweep = NoTime

InitLimiter ==
    \E ttl \in 1..MaxLimTTL, max \in 1..MaxLimEntries :
       InitLimiterWith(ttl, max)

\* cleanupLoop, line 277: now is read before cleanup takes the lock.
LimiterCleanupBegin ==
    /\ limSweep = NoTime
    /\ limSweep' = now
    /\ UNCHANGED <<mainVars, sessVars, storeVars, nameIn, nameOut, limiters, limTTL,
                   maxEntries, cfg, hreq, served>>

\* Limiter.cleanup under the lock: every idle entry is deleted.
LimiterCleanup ==
    /\ limSweep # NoTime
    /\ limiters' = [k \in {i \in DOMAIN limiters :
                             ~Idle(limSweep, limiters[i].lastSeen)} |->
                      limiters[k]]
    /\ limSweep' = NoTime
    /\ UNCHANGED <<mainVars, sessVars, storeVars, nameIn, nameOut, limTTL, maxEntries,
                   cfg, hreq, served>>

\* ------------------------------------------------------------------------
\* httpapi.API: the protected routes /v1/frames and /v1/ws
\* ------------------------------------------------------------------------

\* ---- bounds ----
MaxRequests == 3
\* cfg.MaxUploadBytes(), in bytes.
MaxUploadBytes == 2

StatusOK == 200
StatusBadRequest == 400
StatusUnauthorized == 401
StatusForbidden == 403
StatusRequestEntityTooLarge == 413
StatusTooManyRequests == 429
StatusInternalServerError == 500
\* The answer of a completed upgrade.
StatusSwitchingProtocols == 101
\* No answer written yet.
NoStatus == 0

RouteFrames == "/v1/frames"
RouteWS == "/v1/ws"

\* The rate and the burst NewRouter gives the limiter of each route.
RouteRate(route) ==
    IF route = RouteFrames THEN UploadRatePerSec ELSE WSRatePerSec
RouteBurst(route) ==
    IF route = RouteFrames THEN UploadRateBurst ELSE WSRateBurst

\* ERMETE_PSK: a secret, or empty under ERMETE_ALLOW_NO_PSK=true.
PSKs == {<<>>, <<"s">>}

\* What a client sends as X-Ermete-PSK or as the psk query parameter:
\* nothing, the secret, a wrong value of the secret's length, a longer one.
Credentials == {<<>>, <<"s">>, <<"x">>, <<"s", "s">>}

\* Mutant of ConstantTimeCompare: only the lengths are compared.
ConstantTimeCompareLengths(x, y) == Len(x) = Len(y)

\* subtle.ConstantTimeCompare(x, y) = 1.
ConstantTimeCompare(x, y) ==
    /\ Len(x) = Len(y)
    /\ \A i \in 1..Len(x) : x[i] = y[i]

\* requirePSK, lines 151-154: the header, or the query parameter when the
\* header is empty and the fallback is configured.
Provided(header, query) ==
    IF header = <<>> /\ cfg.PSKAllowQuery THEN query ELSE header

\* requirePSK, lines 155-165: whether next.ServeHTTP is called.
PSKAccepts(provided) ==
    /\ provided # <<>>
    /\ ConstantTimeCompare(provided, cfg.PSK)

\* strings.TrimSuffix(s, "/").
TrimSlash(s) ==
    IF s # <<>> /\ s[Len(s)] = "/" THEN SubSeq(s, 1, Len(s) - 1) ELSE s

\* Mutant of normalizeOrigin: every trailing "/" is dropped.
RECURSIVE normalizeOriginAllSlashes(_)
normalizeOriginAllSlashes(origin) ==
    LET s == TrimSpace(origin) IN
    IF s # <<>> /\ s[Len(s)] = "/"
    THEN normalizeOriginAllSlashes(SubSeq(s, 1, Len(s) - 1))
    ELSE s

\* normalizeOrigin: TrimSpace, then one trailing "/" is dropped.
normalizeOrigin(origin) == TrimSlash(TrimSpace(origin))

\* config.normalizeOriginList: every entry is trimmed the same way and the
\* empty ones are dropped.
normalizeOriginList(in) ==
    SelectSeq([i \in 1..Len(in) |-> TrimSlash(TrimSpace(in[i]))],
              LAMBDA o : o # <<>>)

\* WS_ALLOWED_ORIGINS after splitCSV.
OriginLists ==
    {<<>>,
     << <<"o", "/">> >>,
     << <<"/">>, <<"o", "/", "/">> >>}

\* Origin headers a client sends: none, allowed ones in several spellings,
\* one with two trailing slashes, a bare slash, a foreign one.
Origins ==
    {<<>>, <<"o">>, <<"o", "/">>, <<" ", "o", "/", " ">>, <<"o", "/", "/">>,
     <<" ", "/">>, <<"e">>}

\* The CheckOrigin function of handleWS, lines 78-95.
CheckOrigin(header) ==
    LET origin == normalizeOrigin(header) IN
    IF origin = <<>> THEN cfg.WSAllowNoOrigin
    ELSE IF cfg.WSAllowAnyOrigin THEN TRUE
    ELSE IF Len(cfg.WSAllowedOrigins) = 0 THEN FALSE
    ELSE \E i \in 1..Len(cfg.WSAllowedOrigins) :
            origin = cfg.WSAllowedOrigins[i]

\* config.Load, as far as the protected routes read it: every setting of
\* the origin check under a secret, and every setting of the credential
\* check under the default origin settings.
OriginConfigs ==
    {[PSK |-> <<"s">>, PSKAllowQuery |-> FALSE, WSAllowNoOrigin |-> n,
      WSAllowAnyOrigin |-> a, WSAllowedOrigins |-> normalizeOriginList(l)] :
        n \in BOOLEAN, a \in BOOLEAN, l \in OriginLists}
PSKConfigs ==
    {[PSK |-> k, PSKAllowQuery |-> q, WSAllowNoOrigin |-> TRUE,
      WSAllowAnyOrigin |-> FALSE, WSAllowedOrigins |-> <<>>] :
        k \in PSKs, q \in BOOLEAN}
Configs == OriginConfigs \cup PSKConfigs

\* The error messages the body readers return.
ErrPayloadTooLarge ==
    <<"p", "a", "y", "l", "o", "a", "d", " ", "t", "o", "o", " ",
      "l", "a", "r", "g", "e">>
ErrMessageTooLarge ==
    <<"m", "u", "l", "t", "i", "p", "a", "r", "t", ":", " ", "m", "e", "s",
      "s", "a", "g", "e", " ", "t", "o", "o", " ", "l", "a", "r", "g", "e">>
ErrUnexpectedEOF ==
    <<"u", "n", "e", "x", "p", "e", "c", "t", "e", "d", " ", "E", "O", "F">>
ErrMissingFile ==
    <<"h", "t", "t", "p", ":", " ", "n", "o", " ", "s", "u", "c", "h", " ",
      "f", "i", "l", "e">>
NoErr == <<>>

\* Mutant of ReadAllLimited: an input of exactly maxBytes is refused.
ReadAllLimitedStrict(body, fault, maxBytes) ==
    IF fault THEN [err |-> ErrUnexpectedEOF, payload |-> <<>>]
    ELSE IF Len(body) >= maxBytes
    THEN [err |-> ErrPayloadTooLarge, payload |-> <<>>]
    ELSE [err |-> NoErr, payload |-> body]

\* storage.ReadAllLimited: at most maxBytes+1 bytes are read; a failing
\* read returns its error, more than maxBytes is "payload too large".
ReadAllLimited(body, fault, maxBytes) ==
    IF fault THEN [err |-> ErrUnexpectedEOF, payload |-> <<>>]
    ELSE IF Len(body) > maxBytes
    THEN [err |-> ErrPayloadTooLarge, payload |-> <<>>]
    ELSE [err |-> NoErr, payload |-> body]

ErrBadForm ==
    <<"m", "u", "l", "t", "i", "p", "a", "r", "t", ":", " ", "N", "e", "x",
      "t", "P", "a", "r", "t", ":", " ", "E", "O", "F">>

\* What can go wrong with a body besides the size of the payload: nothing,
\* a failing read, a form over the parser's limits, a malformed form, a
\* form without the "file" part.
Faults == {"none", "read", "formsize", "badform", "nofile"}

\* detectMultipartContentType.
detectMultipartContentType(partType) ==
    IF partType # <<>> THEN partType
    ELSE <<"a", "p", "p", "l", "i", "c", "a", "t", "i", "o", "n", "/",
           "o", "c", "t", "e", "t", "-", "s", "t", "r", "e", "a", "m">>

\* readMultipartPayload: ParseMultipartForm, FormFile, ReadAllLimited of the
\* file part, and the part's content type.
readMultipartPayload(body, partType, fault, maxBytes) ==
    IF fault = "formsize"
    THEN [err |-> ErrMessageTooLarge, payload |-> <<>>, contentType |-> <<>>]
    ELSE IF fault = "badform"
    THEN [err |-> ErrBadForm, payload |-> <<>>, contentType |-> <<>>]
    ELSE IF fault = "nofile"
    THEN [err |-> ErrMissingFile, payload |-> <<>>, contentType |-> <<>>]
    ELSE LET r == ReadAllLimited(body, fault = "read", maxBytes) IN
         [err |-> r.err, payload |-> r.payload,
          contentType |-> IF r.err = NoErr
                          THEN detectMultipartContentType(partType)
                          ELSE <<>>]

\* handleFrameUpload, lines 118-124.
ReadPayload(multipart, body, contentType, fault) ==
    IF multipart
    THEN readMultipartPayload(body, contentType, fault, MaxUploadBytes)
    ELSE LET r == ReadAllLimited(body, fault = "read", MaxUploadBytes) IN
         [err |-> r.err, payload |-> r.payload, contentType |-> contentType]

\* Mutant of StatusOfReadError: every read error is a bad request.
StatusOfReadErrorAlways400(err) == StatusBadRequest

\* handleFrameUpload, lines 127-132.
StatusOfReadError(err) ==
    IF Contains(ToLower(err), <<"t", "o", "o", " ", "l", "a", "r", "g", "e">>)
    THEN StatusRequestEntityTooLarge
    ELSE StatusBadRequest

\* A body over the limit, besides the bodies of Uploads.
Oversized ==
    [frameID |-> <<"f">>, timestamp |-> <<>>, idem |-> NoKey,
     contentType |-> <<"p", "n", "g">>,
     payload |-> [i \in 1..(MaxUploadBytes + 1) |-> 3]]

\* No request in flight.
NoHReq ==
    [stage |-> "idle", route |-> RouteFrames, ip |-> 0, now |-> NoTime,
     limited |-> "none", wasNew |-> FALSE,
     header |-> <<>>, query |-> <<>>, authed |-> "none",
     origin |-> <<>>, originOK |-> "none",
     multipart |-> FALSE, fault |-> "none", bodyLen |-> 0,
     readErr |-> NoErr, upload |-> NoReq,
     ticket |-> 0, status |-> NoStatus, error |-> "",
     duplicate |-> FALSE, touched |-> FALSE]

\* NewRouter with a loaded configuration; nothing has been served.
InitAPIWith(c) ==
    /\ cfg = c
    /\ hreq = NoHReq
    /\ served = 0

InitAPI == \E c \in Configs : InitAPIWith(c)

\* The transports handed to HandleWS so far.
Accepted == Cardinality({p \in Peers : pc[Handler(p)] # "idle"})

\* The request before has been answered, or has been upgraded and handed
\* to HandleWS.
Answered ==
    \/ hreq.stage \in {"idle", "done"}
    \/ hreq.stage = "handlews" /\ Accepted > hreq.ticket

\* requirePSK has called handleFrameUpload (line 165): the request has
\* left the middleware chain.
Forwarded == hreq.stage = "handler" /\ hreq.route = RouteFrames

\* Client addresses that tell requests apart: those in the table, and one
\* of those that are not (addresses out of the table are interchangeable).
ArrivingIPs ==
    DOMAIN limiters \cup
      {ip \in IPs : /\ ip \notin DOMAIN limiters
                    /\ \A other \in IPs \ DOMAIN limiters : ip <= other}

\* A request for a protected route arrives from a client address; the
\* router enters the route's middleware chain (lines 57-64), whose first
\* member is the rate limiter.
Arrive ==
    /\ Answered \/ Forwarded
    /\ served < MaxRequests
    /\ \E route \in {RouteFrames, RouteWS}, ip \in ArrivingIPs :
          hreq' = [NoHReq EXCEPT !.stage = "limit", !.route = route,
                                 !.ip = ip]
    /\ served' = served + 1
    /\ UNCHANGED <<mainVars, sessVars, storeVars, nameIn, nameOut, limiters, limTTL,
                   maxEntries, limSweep, cfg>>

\* rateLimitMiddleware calls allow, which reads the clock (line 248)
\* before it waits for the limiter's lock.
RateLimitBegin ==
    /\ hreq.stage = "limit"
    /\ hreq' = [hreq EXCEPT !.stage = "allow", !.now = now]
    /\ UNCHANGED <<mainVars, sessVars, storeVars, nameIn, nameOut, limiters, limTTL,
                   maxEntries, limSweep, cfg, served>>

\* allow under the lock, and the middleware's answer: 429 when allow
\* returns false, the next handler of the chain otherwise.
RateLimitAllow ==
    /\ hreq.stage = "allow"
    /\ LET r == AllowLocked(limiters, hreq.ip, RouteRate(hreq.route),
                            RouteBurst(hreq.route), hreq.now, now)
       IN /\ limiters' = r.tbl
          /\ hreq' = [hreq EXCEPT
                        !.wasNew = hreq.ip \notin DOMAIN limiters,
                        !.limited = IF r.ok THEN "ok"
                                    ELSE IF r.full THEN "full" ELSE "bucket",
                        !.stage = IF r.ok THEN "auth" ELSE "done",
                        !.status = IF r.ok THEN NoStatus
                                   ELSE StatusTooManyRequests,
                        !.error = IF r.ok THEN "" ELSE "rate limited"]
    /\ UNCHANGED <<mainVars, sessVars, storeVars, nameIn, nameOut, limTTL, maxEntries,
                   limSweep, cfg, served>>

\* requirePSK, the second member of the chain.
RequirePSK ==
    /\ hreq.stage = "auth"
    /\ \E header \in Credentials, query \in Credentials :
          LET ok == PSKAccepts(Provided(header, query)) IN
          hreq' = [hreq EXCEPT
                     !.header = header, !.query = query,
                     !.authed = IF ok THEN "ok" ELSE "rejected",
                     !.stage = IF ok THEN "handler" ELSE "done",
                     !.status = IF ok THEN NoStatus ELSE StatusUnauthorized,
                     !.error = IF ok THEN "" ELSE "unauthorized"]
    /\ UNCHANGED <<mainVars, sessVars, storeVars, nameIn, nameOut, limiters, limTTL,
                   maxEntries, limSweep, cfg, served>>

\* handleWS, lines 78-101: the origin check and its 403.
WSCheckOrigin ==
    /\ hreq.stage = "handler"
    /\ hreq.route = RouteWS
    /\ \E origin \in Origins :
          LET ok == CheckOrigin(origin) IN
          hreq' = [hreq EXCEPT
                     !.origin = origin,
                     !.originOK = IF ok THEN "ok" ELSE "rejected",
                     !.stage = IF ok THEN "upgrade" ELSE "done",
                     !.status = IF ok THEN NoStatus ELSE StatusForbidden,
                     !.error = IF ok THEN "" ELSE "forbidden origin"]
    /\ UNCHANGED <<mainVars, sessVars, storeVars, nameIn, nameOut, limiters, limTTL,
                   maxEntries, limSweep, cfg, served>>

\* handleWS, lines 102-106: the upgrade fails on a bad handshake (400) or
\* switches protocols.
WSUpgrade ==
    /\ hreq.stage = "upgrade"
    /\ \/ hreq' = [hreq EXCEPT !.stage = "done",
                               !.status = StatusBadRequest,
                               !.error = "websocket upgrade failed"]
       \/ /\ \E p \in Peers : pc[Handler(p)] = "idle"
          /\ hreq' = [hreq EXCEPT !.stage = "handlews",
                                  !.status = StatusSwitchingProtocols,
                                  !.ticket = Accepted]
    /\ UNCHANGED <<mainVars, sessVars, storeVars, nameIn, nameOut, limiters, limTTL,
                   maxEntries, limSweep, cfg, served>>

\* handleWS, line 107: HandleWS is called with the upgraded transport.
\* Transports are interchangeable, so the call takes the lowest free one.
HandleWSCall(p) ==
    /\ hreq.stage = "handlews"
    /\ hreq.ticket = Accepted
    /\ \A q \in Peers : q < p => pc[Handler(q)] # "idle"
    /\ Accept(p)

\* handleFrameUpload is called with a request that has passed the
\* middleware chain of /v1/frames.
UploadArrive ==
    /\ Answered
    /\ served < MaxRequests
    /\ hreq' = [NoHReq EXCEPT !.stage = "handler", !.route = RouteFrames,
                              !.limited = "ok", !.authed = "ok"]
    /\ served' = served + 1
    /\ UNCHANGED <<mainVars, sessVars, storeVars, nameIn, nameOut, limiters, limTTL,
                   maxEntries, limSweep, cfg>>

\* handleFrameUpload, lines 112-133: the headers and the body are read; a
\* read error is answered 413 or 400.
UploadRead ==
    /\ hreq.stage = "handler"
    /\ hreq.route = RouteFrames
    /\ \E multipart \in BOOLEAN, u \in Uploads \cup {Oversized},
          fault \in Faults :
          /\ fault \in {"formsize", "badform", "nofile"} => multipart
          /\ LET r == ReadPayload(multipart, u.payload, u.contentType, fault)
             IN hreq' =
                  IF r.err # NoErr
                  THEN [hreq EXCEPT
                          !.multipart = multipart, !.fault = fault,
                          !.bodyLen = Len(u.payload), !.readErr = r.err,
                          !.stage = "done",
                          !.status = StatusOfReadError(r.err),
                          !.error = IF StatusOfReadError(r.err)
                                        = StatusRequestEntityTooLarge
                                    THEN "payload too large"
                                    ELSE "invalid payload"]
                  ELSE [hreq EXCEPT
                          !.multipart = multipart, !.fault = fault,
                          !.bodyLen = Len(u.payload),
                          !.upload = [u EXCEPT !.payload = r.payload,
                                               !.contentType = r.contentType],
                          !.stage = "save", !.ticket = started]
    /\ UNCHANGED <<mainVars, sessVars, storeVars, nameIn, nameOut, limiters, limTTL,
                   maxEntries, limSweep, cfg, served>>

\* handleFrameUpload, line 135: SaveFrame is called with what was read.
UploadSave ==
    /\ hreq.stage = "save"
    /\ started = hreq.ticket
    /\ SaveFrameBegin(1)
    /\ req'[1].frameID = hreq.upload.frameID
    /\ req'[1].idem = hreq.upload.idem
    /\ req'[1].contentType = hreq.upload.contentType
    /\ req'[1].payload = hreq.upload.payload

\* handleFrameUpload, lines 136-146: SaveFrame has returned; an error is
\* answered 500, otherwise the session is Touched and the answer is 200
\* with the duplicate flag of the meta.
UploadRespond ==
    /\ hreq.stage = "save"
    /\ started = hreq.ticket + 1
    /\ req[1] = NoReq
    /\ IF lastRet.err
       THEN /\ hreq' = [hreq EXCEPT !.stage = "done",
                               !.status = StatusInternalServerError,
                               !.error = "failed to save frame"]
            /\ UNCHANGED <<active, state, lastActive>>
       ELSE /\ mgrMu = Free
            /\ Touch
            /\ hreq' = [hreq EXCEPT !.stage = "done", !.status = StatusOK,
                               !.duplicate = lastRet.meta.Duplicate,
                               !.touched = TRUE]
    /\ UNCHANGED <<mainVars, storeVars, policy, mgrMu, closed, pcState, wired,
                   connState, effects, pc, cstep, iceArg, acqResult, relFound,
                   sent, track,
                   nameIn, nameOut, limiters, limTTL, maxEntries, limSweep,
                   cfg, served>>

\* The middleware chain of both routes, handleWS up to Acquire, the
\* limiter's sweeper and the clock.
NextGate ==
    \/ Arrive
    \/ RateLimitBegin
    \/ RateLimitAllow
    \/ RequirePSK
    \/ WSCheckOrigin
    \/ WSUpgrade
    \/ \E p \in Peers : HandleWSCall(p)
    \/ \E p \in Peers : Acquire(p)
    \/ \E p \in Peers : RejectClose(p)
    \/ Tick
    \/ LimiterCleanupBegin
    \/ LimiterCleanup

\* handleFrameUpload, the SaveFrame it calls and the clock.
NextUpload ==
    \/ UploadArrive
    \/ UploadRead
    \/ UploadSave
    \/ SaveFrameDuplicate(1)
    \/ SaveFrameWrite(1)
    \/ UploadRespond
    \/ Tick

\* ------------------------------------------------------------------------
\* config.Load
\* ------------------------------------------------------------------------

\* Durations, in seconds.
Second == 1
Minute == 60

\* The zero Config, of the fields Load computes from the environment or
\* sets to a constant.
ZeroConfig ==
    [HTTPAddr |-> "", DataDir |-> "", LogLevel |-> "", PSKHeader |-> <<>>,
     PSK |-> "", AllowNoPSK |-> FALSE, PSKAllowQuery |-> FALSE,
     WSAllowNoOrigin |-> FALSE, WSAllowAnyOrigin |-> FALSE,
     MaxUploadMB |-> 0, SessionPolicy |-> "",
     ShutdownGracePeriod |-> 0, RateLimitMaxEntries |-> 0,
     RateLimitTTL |-> 0, IdempotencyTTL |-> 0, IdempotencyMax |-> 0]

\* The defaults Load starts from and falls back to (lines 55-76, 84, 92,
\* 105).
DefaultPSKHeader ==
    <<"X", "-", "E", "r", "m", "e", "t", "e", "-", "P", "S", "K">>
DefaultHTTPAddr == ":8080"
DefaultDataDir == "/data"
DefaultLogLevel == "info"
DefaultMaxUploadMB == 10
DefaultShutdownGrace == 15 * Second
DefaultRateLimitMaxEntries == 10000
DefaultRateLimitTTL == 30 * Minute
DefaultIdempotencyTTL == 10 * Minute
DefaultIdempotencyMax == 50000

\* The environments Load is run in.  A variable that is unset reads as the
\* empty string.  The numbers are given as the characters typed.
Envs ==
    [ERMETE_PSK : {"", "s"},
     ERMETE_ALLOW_NO_PSK : {"", "true", "1", "false", "yes"},
     ERMETE_PSK_HEADER : {<<>>, <<" ">>, <<"X">>},
     SESSION_POLICY : {"", "reject_second", "kick_previous", "bad"},
     MAX_UPLOAD_MB : {<<>>, <<"0">>, <<"-", "1">>, <<"1">>, <<"x">>},
     IDEMPOTENCY_MAX : {<<>>, <<"0">>, <<"3">>, <<"1", "x">>},
     RATE_LIMIT_MAX_ENTRIES : {<<>>, <<"0">>, <<"+", "2">>, <<"-">>},
     RATE_LIMIT_TTL : {"", "1m", "0s"},
     IDEMPOTENCY_TTL : {"", "x"}]

\* The environment of TestLoadDefaults: ERMETE_ALLOW_NO_PSK=true and
\* nothing else.
EnvAllowNoPSKOnly ==
    [ERMETE_PSK |-> "", ERMETE_ALLOW_NO_PSK |-> "true",
     ERMETE_PSK_HEADER |-> <<>>, SESSION_POLICY |-> "",
     MAX_UPLOAD_MB |-> <<>>, IDEMPOTENCY_MAX |-> <<>>,
     RATE_LIMIT_MAX_ENTRIES |-> <<>>, RATE_LIMIT_TTL |-> "",
     IDEMPOTENCY_TTL |-> ""]

\* getEnv, lines 229-234.
getEnv(raw, fallback, empty) == IF raw # empty THEN raw ELSE fallback

\* strconv.ParseBool: the spellings it accepts.
ParseBool(raw) ==
    IF raw \in {"1", "t", "T", "TRUE", "true", "True"}
    THEN [ok |-> TRUE, v |-> TRUE]
    ELSE IF raw \in {"0", "f", "F", "FALSE", "false", "False"}
    THEN [ok |-> TRUE, v |-> FALSE]
    ELSE [ok |-> FALSE, v |-> FALSE]

\* parseBoolEnv, lines 190-200: unset or unparsable is the default.
parseBoolEnv(raw, defaultVal) ==
    IF raw = "" THEN defaultVal
    ELSE IF ParseBool(raw).ok THEN ParseBool(raw).v ELSE defaultVal

\* The value of a string of decimal digits.
RECURSIVE DigitsValue(_)
DigitsValue(s) ==
    IF s = <<>> THEN 0
    ELSE LET d == CHOOSE n \in 0..9 : Decimal(n) = <<s[Len(s)]>>
         IN 10 * DigitsValue(SubSeq(s, 1, Len(s) - 1)) + d

\* strconv.Atoi and strconv.ParseInt(raw, 10, 64): an optional sign and at
\* least one digit, nothing else.
Atoi(raw) ==
    LET signed == raw # <<>> /\ Head(raw) \in {"+", "-"}
        digits == IF signed THEN Tail(raw) ELSE raw
    IN IF digits = <<>> \/ \E i \in 1..Len(digits) : digits[i] \notin Digit
       THEN [ok |-> FALSE, v |-> 0]
       ELSE [ok |-> TRUE,
             v |-> IF signed /\ Head(raw) = "-"
                   THEN 0 - DigitsValue(digits)
                   ELSE DigitsValue(digits)]

\* parseIntEnv and parseInt64Env, lines 151-173: "" for nil.
parseIntEnv(raw, defaultVal) ==
    IF raw = <<>> THEN [err |-> "", v |-> defaultVal]
    ELSE IF Atoi(raw).ok THEN [err |-> "", v |-> Atoi(raw).v]
    ELSE [err |-> "invalid", v |-> 0]

\* time.ParseDuration, of the strings of Envs.
ParseDuration(raw) ==
    CASE raw = "1m" -> [ok |-> TRUE, v |-> Minute]
      [] raw = "0s" -> [ok |-> TRUE, v |-> 0]
      [] OTHER -> [ok |-> FALSE, v |-> 0]

\* parseDurationEnv, lines 175-188.
parseDurationEnv(raw, defaultVal) ==
    IF raw = "" THEN [err |-> "", v |-> defaultVal]
    ELSE IF ~ParseDuration(raw).ok THEN [err |-> "invalid", v |-> 0]
    ELSE IF ParseDuration(raw).v <= 0 THEN [err |-> "must be > 0", v |-> 0]
    ELSE [err |-> "", v |-> ParseDuration(raw).v]

\* What Load returns when it fails: the zero Config and the error.
Fail(err) == [cfg |-> ZeroConfig, err |-> err]

\* Mutant of PSKMissing: ERMETE_ALLOW_NO_PSK is not looked at.
PSKMissingIgnoringAllow(psk, allowNoPSK) == psk = ""

\* Load's test at line 79.
PSKMissing(psk, allowNoPSK) == psk = "" /\ ~allowNoPSK

\* Load, lines 53-145: the Config and the error ("" for nil) for the
\* environment e.
Load(e) ==
    LET allowNoPSK == parseBoolEnv(e.ERMETE_ALLOW_NO_PSK, FALSE)
        pskHeader == getEnv(e.ERMETE_PSK_HEADER, DefaultPSKHeader, <<>>)
        maxUploadMB == parseIntEnv(e.MAX_UPLOAD_MB, DefaultMaxUploadMB)
        policyRaw == getEnv(e.SESSION_POLICY, SessionPolicyRejectSecond, "")
        rateLimitMaxEntries == parseIntEnv(e.RATE_LIMIT_MAX_ENTRIES,
                                   DefaultRateLimitMaxEntries)
        limiterTTL == parseDurationEnv(e.RATE_LIMIT_TTL, DefaultRateLimitTTL)
        idempotencyTTL == parseDurationEnv(e.IDEMPOTENCY_TTL, DefaultIdempotencyTTL)
        idempotencyMax == parseIntEnv(e.IDEMPOTENCY_MAX, DefaultIdempotencyMax)
    IN
    IF PSKMissing(e.ERMETE_PSK, allowNoPSK)
    THEN Fail("ERMETE_PSK is required unless ERMETE_ALLOW_NO_PSK=true")
    ELSE IF TrimSpace(pskHeader) = <<>>
    THEN Fail("ERMETE_PSK_HEADER cannot be empty")
    ELSE IF maxUploadMB.err # "" THEN Fail("invalid MAX_UPLOAD_MB")
    ELSE IF maxUploadMB.v <= 0 THEN Fail("MAX_UPLOAD_MB must be > 0")
    ELSE IF policyRaw \notin {SessionPolicyRejectSecond,
                              SessionPolicyKickPrevious}
    THEN Fail("invalid SESSION_POLICY")
    ELSE IF rateLimitMaxEntries.err # "" THEN Fail("invalid RATE_LIMIT_MAX_ENTRIES")
    ELSE IF rateLimitMaxEntries.v <= 0
    THEN Fail("RATE_LIMIT_MAX_ENTRIES must be > 0")
    ELSE IF limiterTTL.err = "invalid" THEN Fail("invalid RATE_LIMIT_TTL")
    ELSE IF limiterTTL.err # "" THEN Fail("RATE_LIMIT_TTL must be > 0")
    ELSE IF idempotencyTTL.err = "invalid"
    THEN Fail("invalid IDEMPOTENCY_TTL")
    ELSE IF idempotencyTTL.err # "" THEN Fail("IDEMPOTENCY_TTL must be > 0")
    ELSE IF idempotencyMax.err # "" THEN Fail("invalid IDEMPOTENCY_MAX")
    ELSE IF idempotencyMax.v <= 0 THEN Fail("IDEMPOTENCY_MAX must be > 0")
    ELSE [cfg |-> [HTTPAddr |-> DefaultHTTPAddr,
                   DataDir |-> DefaultDataDir,
                   LogLevel |-> DefaultLogLevel,
                   PSKHeader |-> pskHeader,
                   PSK |-> e.ERMETE_PSK,
                   AllowNoPSK |-> allowNoPSK,
                   PSKAllowQuery |-> FALSE,
                   WSAllowNoOrigin |-> TRUE,
                   WSAllowAnyOrigin |-> FALSE,
                   MaxUploadMB |-> maxUploadMB.v,
                   SessionPolicy |-> policyRaw,
                   ShutdownGracePeriod |-> DefaultShutdownGrace,
                   RateLimitMaxEntries |-> rateLimitMaxEntries.v,
                   RateLimitTTL |-> limiterTTL.v,
                   IdempotencyTTL |-> idempotencyTTL.v,
                   IdempotencyMax |-> idempotencyMax.v],
          err |-> ""]

\* Nothing has been loaded.
NoBoot == [loaded |-> FALSE]

\* main is about to call Load in some environment.
InitBoot == boot \in [loaded : {FALSE}, env : Envs]

\* main, line 24: cfg, err := config.Load().
LoadConfig ==
    /\ ~boot.loaded
    /\ boot' = [loaded |-> TRUE, env |-> boot.env, cfg |-> Load(boot.env).cfg,
                err |-> Load(boot.env).err]
    /\ UNCHANGED <<sessVars, storeVars, apiVars, srv>>

NextBoot == LoadConfig

\* ------------------------------------------------------------------------
\* main: the http.Server from ListenAndServe to the end of the process
\* ------------------------------------------------------------------------

\* ---- bounds ----
MaxAccepted == 3
MaxInFlight == 2
MaxElapsed == 17

\* No server: main has not come to ListenAndServe.
NoSrv == [phase |-> "off"]

\* main, lines 46-56: the server listens; nothing has been accepted.
\* inFlight counts the requests whose handler runs on a connection the
\* server tracks, hijacked the connections a handler has taken over (the
\* WebSockets), elapsed the seconds since the signal, cut the connections
\* that were open when the process ended.
Listening ==
    [phase |-> "serving", accepted |-> 0, inFlight |-> 0, hijacked |-> 0,
     elapsed |-> 0, err |-> "none", cut |-> 0]

\* The configuration main runs with: that of EnvAllowNoPSKOnly.
Booted ==
    [loaded |-> TRUE, env |-> EnvAllowNoPSKOnly,
     cfg |-> Load(EnvAllowNoPSKOnly).cfg, err |-> Load(EnvAllowNoPSKOnly).err]

InitMain ==
    /\ boot = Booted
    /\ srv = Listening

\* Mutant of CtxDone: the context never expires.
CtxDoneNever(elapsed) == FALSE

\* ctx.Done() of context.WithTimeout(..., cfg.ShutdownGracePeriod), line 62.
CtxDone(elapsed) == elapsed >= boot.cfg.ShutdownGracePeriod

\* The listener accepts a connection and a request on it reaches its
\* handler.  Shutdown closes the listeners before anything else.
RequestArrive ==
    /\ srv.phase = "serving"
    /\ srv.accepted < MaxAccepted
    /\ srv.inFlight + srv.hijacked < MaxInFlight
    /\ srv' = [srv EXCEPT !.accepted = @ + 1, !.inFlight = @ + 1]
    /\ UNCHANGED <<sessVars, storeVars, apiVars, boot>>

\* A handler returns and its response is written; the connection goes idle
\* (and is closed by Shutdown if one is in progress).
RequestDone ==
    /\ srv.phase \in {"serving", "draining", "returned"}
    /\ srv.inFlight > 0
    /\ srv' = [srv EXCEPT !.inFlight = @ - 1]
    /\ UNCHANGED <<sessVars, storeVars, apiVars, boot>>

\* handleWS upgrades: the connection is hijacked and the server no longer
\* tracks it.
RequestHijack ==
    /\ srv.phase \in {"serving", "draining", "returned"}
    /\ srv.inFlight > 0
    /\ srv' = [srv EXCEPT !.inFlight = @ - 1, !.hijacked = @ + 1]
    /\ UNCHANGED <<sessVars, storeVars, apiVars, boot>>

\* HandleWS returns: its transport has been closed.
HijackedDone ==
    /\ srv.phase \in {"serving", "draining", "returned"}
    /\ srv.hijacked > 0
    /\ srv' = [srv EXCEPT !.hijacked = @ - 1]
    /\ UNCHANGED <<sessVars, storeVars, apiVars, boot>>

\* main, lines 59-64: SIGINT or SIGTERM arrives, the context is made and
\* srv.Shutdown(ctx) closes the listeners.
Signal ==
    /\ srv.phase = "serving"
    /\ srv' = [srv EXCEPT !.phase = "draining", !.elapsed = 0]
    /\ UNCHANGED <<sessVars, storeVars, apiVars, boot>>

\* Shutdown can return: no tracked connection is serving a request, or the
\* context is done.
ShutdownCanReturn ==
    /\ srv.phase = "draining"
    /\ srv.inFlight = 0 \/ CtxDone(srv.elapsed)

\* A second passes while Shutdown polls; it does not pass a moment at which
\* Shutdown returns.
GraceTick ==
    /\ srv.phase = "draining"
    /\ ~ShutdownCanReturn
    /\ srv.elapsed < MaxElapsed
    /\ srv' = [srv EXCEPT !.elapsed = @ + 1]
    /\ UNCHANGED <<sessVars, storeVars, apiVars, boot>>

\* srv.Shutdown returns, line 64: nil when every tracked connection has
\* gone idle and been closed, the context's error when the context is done;
\* it closes no connection that is serving a request and no hijacked one.
ShutdownReturn ==
    /\ ShutdownCanReturn
    /\ \E err \in {"nil", "deadline"} :
         /\ err = "nil" => srv.inFlight = 0
         /\ err = "deadline" => CtxDone(srv.elapsed)
         /\ srv' = [srv EXCEPT !.phase = "returned", !.err = err]
    /\ UNCHANGED <<sessVars, storeVars, apiVars, boot>>

\* main, lines 65-68: the error is logged and main returns; the process
\* ends and the system closes every connection it still had.
Exit ==
    /\ srv.phase = "returned"
    /\ srv' = [srv EXCEPT !.phase = "stopped", !.cut = srv.inFlight + srv.hijacked,
                          !.inFlight = 0, !.hijacked = 0]
    /\ UNCHANGED <<sessVars, storeVars, apiVars, boot>>

NextMain ==
    \/ RequestArrive
    \/ RequestDone
    \/ RequestHijack
    \/ HijackedDone
    \/ Signal
    \/ GraceTick
    \/ ShutdownReturn
    \/ Exit

\* main has not started.
InitMainIdle ==
    /\ boot = NoBoot
    /\ srv = NoSrv

\* The configuration of the defaults, with a secret.
DefaultConfig ==
    [PSK |-> <<"s">>, PSKAllowQuery |-> FALSE, WSAllowNoOrigin |-> TRUE,
     WSAllowAnyOrigin |-> FALSE, WSAllowedOrigins |-> <<>>]

\* The API and the limiter at rest, for the specifications of other parts.
InitApiIdle ==
    /\ nameIn = [frameID |-> <<>>, contentType |-> <<>>, nanos |-> 0]
    /\ nameOut = NoName
    /\ InitLimiterWith(1, 1)
    /\ InitAPIWith(DefaultConfig)

vars == <<sessVars, storeVars, apiVars, mainVars>>

\* The session manager and its peers, beside an idle frame store.
InitForSession ==
    /\ InitMainIdle
    /\ InitSession
    /\ InitStoreWith(MaxTTL, MaxIdemMax)
    /\ InitApiIdle

SpecSession == InitForSession /\ [][NextSession]_vars

\* The signaling loops of peers that send every kind of message, under the
\* default policy.
InitForSignal ==
    /\ InitMainIdle
    /\ InitSession
    /\ policy = SessionPolicyRejectSecond
    /\ InitStoreWith(MaxTTL, MaxIdemMax)
    /\ InitApiIdle

SpecSignal == InitForSignal /\ [][NextSignal]_vars

\* The frame store, its callers and its sweeper, beside an idle manager.
InitForStore ==
    /\ InitMainIdle
    /\ InitStore
    /\ InitSession
    /\ policy = SessionPolicyRejectSecond
    /\ InitApiIdle

SpecStore == InitForStore /\ [][NextStore]_vars

\* The naming of a frame file, for every frame id and content type.
InitForName ==
    /\ InitMainIdle
    /\ InitName
    /\ InitSession
    /\ policy = SessionPolicyRejectSecond
    /\ InitStoreWith(MaxTTL, MaxIdemMax)
    /\ InitLimiterWith(1, 1)
    /\ InitAPIWith(DefaultConfig)

SpecName == InitForName /\ [][NextName]_vars

\* What the routes call: the store that has just been opened, the manager
\* with no session.
InitBehindAPI ==
    /\ InitMainIdle
    /\ nameIn = [frameID |-> <<>>, contentType |-> <<>>, nanos |-> 0]
    /\ nameOut = NoName
    /\ InitStoreWith(MaxTTL, MaxIdemMax)
    /\ InitSession
    /\ policy = SessionPolicyRejectSecond

\* The limiter in every configuration, under the default configuration of
\* the routes.
InitForLimiter ==
    /\ InitLimiter
    /\ InitAPIWith(DefaultConfig)
    /\ InitBehindAPI

SpecLimiter == InitForLimiter /\ [][NextGate]_vars

\* The routes in every configuration, with a limiter table of one entry.
InitForGate ==
    /\ InitAPI
    /\ InitLimiterWith(1, 1)
    /\ InitBehindAPI

SpecGate == InitForGate /\ [][NextGate]_vars

InitForUpload ==
    /\ InitAPIWith(DefaultConfig)
    /\ InitLimiterWith(1, 1)
    /\ InitBehindAPI

SpecUpload == InitForUpload /\ [][NextUpload]_vars

\* An upload that has been let through, read and parsed, and is about to
\* call SaveFrame (handleFrameUpload at line 135), beside a manager with no
\* session yet.
ParsedUpload ==
    [frameID |-> <<"f">>, timestamp |-> <<>>, idem |-> 1,
     contentType |-> <<"i", "/", "P", "N", "G">>, payload |-> <<1>>]

InitForRecovery ==
    /\ InitMainIdle
    /\ InitSession
    /\ InitStoreWith(MaxTTL, MaxIdemMax)
    /\ nameIn = [frameID |-> <<>>, contentType |-> <<>>, nanos |-> 0]
    /\ nameOut = NoName
    /\ InitLimiterWith(1, 1)
    /\ cfg = DefaultConfig
    /\ served = 1
    /\ hreq = [NoHReq EXCEPT !.stage = "save", !.limited = "ok",
                             !.authed = "ok", !.bodyLen = 1,
                             !.upload = ParsedUpload, !.ticket = 0]

\* The rest of that upload.
UploadStep ==
    \/ UploadSave
    \/ SaveFrameWrite(1)
    \/ UploadRespond

\* The upload beside the sessions: transports connect, are accepted,
\* rejected or kick the incumbent, peers fail and say bye, reads fail.
NextRecovery ==
    \/ \E p \in Peers : Accept(p)
    \/ \E p \in Peers : Acquire(p)
    \/ \E p \in Peers : RejectClose(p)
    \/ \E p \in Peers : InitPeer(p)
    \/ \E p \in Peers : LoopBye(p)
    \/ \E p \in Peers : LoopExit(p)
    \/ \E p \in Peers : ConnCbFire(p)
    \/ \E g \in Goroutines : CloseLatch(g)
    \/ \E g \in Goroutines : CloseSendErr(g)
    \/ \E g \in Goroutines : CloseSendBye(g)
    \/ \E g \in Goroutines : ClosePc(g)
    \/ \E g \in Goroutines : CloseConn(g)
    \/ \E g \in Goroutines : CloseRelease(g)
    \/ UploadSave
    \/ SaveFrameWrite(1)
    \/ UploadRespond

SpecRecovery == InitForRecovery /\ [][NextRecovery]_vars

\* The remote-audio loop of the incumbent, whose initPeer has succeeded and
\* whose HandleWS is in its read loop; nothing else runs.
InitForTrack ==
    /\ InitMainIdle
    /\ policy \in {SessionPolicyRejectSecond, SessionPolicyKickPrevious}
    /\ mgrMu = Free
    /\ state \in {StateConnecting, StateConnected}
    /\ active = 1
    /\ lastActive = 1
    /\ closed = [p \in Peers |-> FALSE]
    /\ pcState = [p \in Peers |-> IF p = 1 THEN "open" ELSE "nil"]
    /\ wired = [p \in Peers |-> p = 1]
    /\ connState = [p \in Peers |-> IF p = 1 THEN "open" ELSE "none"]
    /\ effects = [p \in Peers |-> <<>>]
    /\ pc = [g \in Goroutines |-> IF g = Handler(1) THEN "loop" ELSE "idle"]
    /\ cstep = [g \in Goroutines |-> "none"]
    /\ iceArg = [p \in Peers |-> "none"]
    /\ acqResult = [p \in Peers |-> IF p = 1 THEN "ok" ELSE "none"]
    /\ relFound = [p \in Peers |-> "none"]
    /\ sent = NoFrames
    /\ track = NoTrack
    /\ InitStoreWith(MaxTTL, MaxIdemMax)
    /\ InitApiIdle

SpecTrack == InitForTrack /\ [][NextTrack]_vars

\* config.Load in every environment of Envs, before anything else exists.
InitForConfig ==
    /\ InitBoot
    /\ srv = NoSrv
    /\ InitSession
    /\ policy = SessionPolicyRejectSecond
    /\ InitStoreWith(MaxTTL, MaxIdemMax)
    /\ InitApiIdle

SpecConfig == InitForConfig /\ [][NextBoot]_vars

\* The server from its first request to the end of the process, the parts
\* behind the router at rest.
InitForShutdown ==
    /\ InitMain
    /\ InitSession
    /\ policy = SessionPolicyRejectSecond
    /\ InitStoreWith(MaxTTL, MaxIdemMax)
    /\ InitApiIdle

SpecShutdown == InitForShutdown /\ [][NextMain]_vars

\* The Go scheduler runs every runnable goroutine, and a sync.Mutex hands the
\* lock to a waiter that has starved: a step that only computes is weakly
\* fair, a step that takes Manager.mu is strongly fair.  What the network
\* does (a transport arrives, a message arrives, a read fails, a connection
\* changes state) is under no fairness.
FairSession ==
    /\ SpecSession
    /\ \A g \in Goroutines :
         /\ WF_vars(CloseLatch(g))
         /\ WF_vars(CloseSendErr(g))
         /\ WF_vars(CloseSendBye(g))
         /\ WF_vars(ClosePc(g))
         /\ WF_vars(CloseConn(g))
         /\ SF_vars(CloseRelease(g))
    /\ \A p \in Peers :
         /\ SF_vars(Acquire(p))
         /\ SF_vars(IceCbSetState(p))
         /\ WF_vars(InitPeer(p))
         /\ WF_vars(RejectClose(p))

\* ------------------------------------------------------------------------
\* Properties of the session manager and of PeerSession.Close
\* ------------------------------------------------------------------------

\* How often Close performed the side effect e on peer p.
Count(p, e) == Cardinality({i \in DOMAIN effects[p] : effects[p][i] = e})

\* Peer p's call of Release has returned.
Released(p) == relFound[p] # "none"

\* A step of the server's own code, as opposed to one the network causes.
ServerStep ==
    \/ \E g \in Goroutines :
         \/ CloseLatch(g) \/ CloseSendErr(g) \/ CloseSendBye(g)
         \/ ClosePc(g) \/ CloseConn(g) \/ CloseRelease(g)
    \/ \E p \in Peers :
         \/ Acquire(p) \/ RejectClose(p) \/ InitPeer(p) \/ IceCbSetState(p)

\* Every call in progress has returned or is blocked for good.
Quiescent == ~ENABLED ServerStep

\* Peer p holds the session: its Acquire succeeded and it has not Released.
Holder(p) == acqResult[p] = "ok" /\ ~Released(p)

\* C1: under RejectSecond, whatever the interleaving of the peers' Acquire
\* calls, every peer whose Acquire succeeded and that has not yet Released is
\* the incumbent (so at most one Acquire succeeds until the holder Releases),
\* and an Acquire returns ErrSessionAlreadyActive, leaving the incumbent in
\* place, exactly when it finds an incumbent.
C1_RejectSecondAtMostOne ==
    /\ [](policy = SessionPolicyRejectSecond =>
            /\ \A p \in Peers : Holder(p) => active = p
            /\ Cardinality({p \in Peers : Holder(p)}) <= 1)
    /\ [][policy = SessionPolicyRejectSecond =>
            \A q \in Peers :
               (acqResult[q] = "none" /\ acqResult'[q] # "none") =>
                  IF active # Nil
                  THEN acqResult'[q] = "err" /\ active' = active
                  ELSE acqResult'[q] = "ok" /\ active' = q]_vars

\* C1 witness: one peer holds the session and another was rejected.
C1_Witness ==
    /\ policy = SessionPolicyRejectSecond
    /\ \E p, q \in Peers :
         /\ p # q
         /\ Holder(p) /\ active = p
         /\ acqResult[q] = "err"

\* C2: under KickPrevious every Acquire succeeds, the peer that acquired most
\* recently is the incumbent, and every peer acquired before it has been
\* Closed exactly once.
C2_KickEveryAcquireSucceeds ==
    policy = SessionPolicyKickPrevious =>
       /\ \A p \in Peers :
            /\ acqResult[p] # "err"
            /\ (acqResult[p] = "ok" /\ active # p) => closed[p]
            /\ Count(p, "conn_close") <= 1
       /\ Quiescent =>
            \A p \in Peers : pc[Handler(p)] \notin {"acquire", "kick"}

\* A goroutine is about to lock Manager.mu.
WaitsForMgrMu(g) ==
    \/ cstep[g] = "release"
    \/ pc[g] \in {"acquire", "set"}

\* C3: the Close that Acquire calls on the incumbent while holding the
\* manager lock takes no manager lock before it returns: no goroutine waits
\* for the manager lock while it holds that lock itself, so the kicking
\* Acquire returns and the lock is released.
C3_CloseTakesNoManagerLock ==
    \A g \in Goroutines : mgrMu = g => ~WaitsForMgrMu(g)

\* C4: in every reachable state there is at most one incumbent and Snapshot
\* reports state Disconnected if and only if its sessionId is empty.
C4_DisconnectedIffNoSession ==
    /\ active \in Peers \cup {Nil}
    /\ (Snapshot.State = StateDisconnected) <=> (Snapshot.SessionID = <<>>)

FullClose ==
    {<<"error", "bye", "pc_close", "conn_close", "release">>,
     <<"error", "bye", "conn_close", "release">>}

\* C6: whatever the interleaving of the Close calls on one PeerSession (the
\* deferred cleanup, a remote bye, the connection-state callback, the
\* manager's kick), exactly one call performs the side effects (error and
\* bye frames, peer-connection close, transport close, Release): no effect
\* happens twice, and once a call has set the latch all of them happen.
C6_CloseEffectsExactlyOnce ==
    /\ \A p \in Peers :
         \A e \in {"error", "bye", "pc_close", "conn_close", "release"} :
            Count(p, e) <= 1
    /\ Quiescent => \A p \in Peers : closed[p] => effects[p] \in FullClose

\* ------------------------------------------------------------------------
\* The frame store
\* ------------------------------------------------------------------------

\* Every SaveFrame call completed so far carried key k, and all of them fell
\* within TTL of the first: the clock, which no call has read later than
\* now, is within TTL of the first call's reading.
OnlyKeyWithinTTL(k) ==
    /\ keysSeen = {k}
    /\ now - firstAt <= idemTTL

\* What such a sequence of calls leaves behind and what its last call
\* returned: one file, a count of one, one cache entry, and either the
\* meta of the one save or a copy of it marked duplicate.
OneSaveOf(k) ==
    /\ Cardinality(DOMAIN files) = 1
    /\ count = 1
    /\ DOMAIN byIdempotency = {k}
    /\ ~lastRet.err
    /\ IF lastRet.wrote
       THEN lastRet.meta = orig[k] /\ ~lastRet.meta.Duplicate
       ELSE /\ lastRet.meta.Duplicate
            /\ lastRet.meta.SHA256 = orig[k].SHA256
            /\ lastRet.meta.Path = orig[k].Path
            /\ lastRet.meta.FileName = orig[k].FileName
            /\ lastRet.meta = [orig[k] EXCEPT !.Duplicate = TRUE]

RetryWithinTTL ==
    /\ lastRet # NoRet
    /\ lastRet.idem # NoKey
    /\ lastRet.prior # NoMeta
    /\ lastRet.at - lastRet.prior.ReceivedAt <= idemTTL

\* The call that completed last returned the earlier save's meta, marked
\* duplicate, and wrote no file.
ReturnedOriginal ==
    /\ ~lastRet.err
    /\ ~lastRet.wrote
    /\ lastRet.meta = [lastRet.prior EXCEPT !.Duplicate = TRUE]

\* C8, as stated: however the SaveFrame calls of different clients
\* interleave, and whatever other keys they carry, the first successful
\* save of a non-empty key wins: every later call with that key within TTL
\* of it returns the same meta, marked duplicate, and writes no new file.
C8_FirstSaveWins == RetryWithinTTL => ReturnedOriginal

\* C8, amended: the same, unless the key's entry has been evicted for
\* capacity by saves of other keys since.
C8_FirstSaveWinsUnlessEvicted ==
    (RetryWithinTTL /\ ~lastRet.priorEvicted) => ReturnedOriginal

\* A retry was answered with the original after a call with another key.
C8_Witness ==
    /\ RetryWithinTTL
    /\ ~lastRet.priorEvicted
    /\ ReturnedOriginal
    /\ Cardinality(keysSeen \ {NoKey}) >= 2

\* C9: at every point where the store lock is free (every state: the
\* critical sections are single steps) the idempotency cache holds at most
\* idemMax entries.
C9_CacheWithinCapacity == Cardinality(DOMAIN byIdempotency) <= idemMax

\* The cache is full after an eviction.
C9_Witness ==
    /\ evicted # {}
    /\ Cardinality(DOMAIN byIdempotency) = idemMax

\* C10: when cleanupExpired(now) returns, no entry of the cache has
\* now - seenAt > TTL, and every entry that was there before the call with
\* now - seenAt <= TTL is still there, unchanged.
C10_CleanupRemovesExactlyExpired ==
    [][(sweepNow # NoTime /\ sweepNow' = NoTime) =>
         /\ \A k \in DOMAIN byIdempotency' :
               ~(sweepNow - byIdempotency'[k].seenAt > idemTTL)
         /\ \A k \in DOMAIN byIdempotency :
               sweepNow - byIdempotency[k].seenAt <= idemTTL =>
                  /\ k \in DOMAIN byIdempotency'
                  /\ byIdempotency'[k] = byIdempotency[k]]_vars

\* A cleanup removed one entry and kept another.
C10_Witness ==
    /\ lastSweep # NoSweep
    /\ lastSweep.removed # {}
    /\ lastSweep.kept # {}
    /\ DOMAIN byIdempotency = lastSweep.kept

\* A SaveFrame call of client c returns in this step.
Returns(c) == req[c] # NoReq /\ req'[c] = NoReq

\* C11: when the disk write inside SaveFrame fails, the error is returned
\* and the idempotency cache (entries and order), last and count are as
\* they were before the call, whatever the cache held for the call's key.
C11_WriteFailureChangesNothing ==
    [][writeErrs' # writeErrs =>
         /\ lastRet'.err
         /\ UNCHANGED <<byIdempotency, idemOrder, last, count>>]_vars

\* C12: the count of LastMeta never decreases; a successful save that is
\* not a duplicate adds exactly one to it and becomes last; a duplicate hit
\* or a failed save changes neither count nor last, and nothing else does.
C12_CountMonotonic ==
    [][/\ count' >= count
       /\ IF \E c \in Clients : Returns(c)
          THEN IF ~lastRet'.err /\ ~lastRet'.meta.Duplicate
               THEN count' = count + 1 /\ last' = lastRet'.meta
               ELSE UNCHANGED <<count, last>>
          ELSE UNCHANGED <<count, last>>]_vars

\* A save, then a failed save and a duplicate hit that left the count.
C12_Witness ==
    /\ count = 1
    /\ writeErrs > 0
    /\ lastRet # NoRet
    /\ ~lastRet.err
    /\ lastRet.meta.Duplicate

\* C14: every successful SaveFrame that is not a duplicate yields exactly
\* one file, distinct from every file written by earlier saves, so that
\* the number of files in the frames directory always equals count.
C14_OneFilePerSave ==
    /\ [][\A c \in Clients :
            (Returns(c) /\ ~lastRet'.err /\ ~lastRet'.meta.Duplicate) =>
               /\ lastRet'.meta.FileName \notin DOMAIN files
               /\ DOMAIN files' = DOMAIN files \cup {lastRet'.meta.FileName}]_vars
    /\ [](Cardinality(DOMAIN files) = count)

\* The last n characters of s.
Suffix(s, n) == SubSeq(s, Len(s) - n + 1, Len(s))

\* The extension the content type asks for: png wins over jpeg and jpg,
\* anything else is bin; the case of the letters does not count.
ExtensionFor(contentType) ==
    LET has(sub) == \E i \in 1..Len(contentType) :
                       /\ i + Len(sub) - 1 <= Len(contentType)
                       /\ \A j \in 1..Len(sub) :
                             LowerOf(contentType[i + j - 1]) = sub[j]
    IN CASE has(<<"p", "n", "g">>) -> <<".", "p", "n", "g">>
         [] ~has(<<"p", "n", "g">>)
              /\ (has(<<"j", "p", "e", "g">>) \/ has(<<"j", "p", "g">>)) ->
                <<".", "j", "p", "g">>
         [] OTHER -> <<".", "b", "i", "n">>

\* C13: for every frame id (empty, blank, with separators or dots) and
\* every content type, the file name of a saved frame is made of the
\* characters [A-Za-z0-9._-] only, so it holds no path separator; it is a
\* non-empty stem followed by .png, .jpg or .bin as the content type asks;
\* and its path is the frames directory followed by that one name.
C13_SafeFileName ==
    nameOut # NoName =>
       /\ \A i \in 1..Len(nameOut.name) : nameOut.name[i] \in SafeChar
       /\ \A i \in 1..Len(nameOut.name) : nameOut.name[i] \notin {"/", "\\"}
       /\ Len(nameOut.name) > 4
       /\ Suffix(nameOut.name, 4) = ExtensionFor(nameIn.contentType)
       /\ nameOut.path = Append(FramesDir, nameOut.name)

\* A frame id that tries to leave the directory has been named.
C13_Witness ==
    /\ nameOut # NoName
    /\ nameIn.frameID = <<".", ".", "/">>
    /\ nameIn.contentType = <<"i", "/", "P", "N", "G">>
    /\ nameOut.name = <<".", ".", "_", "_", "1", "2", ".", "p", "n", "g">>

\* The allow call of the request in flight returns in this step.
AllowReturns == hreq.stage = "allow" /\ hreq'.stage # "allow"

\* What the returning allow call answers.
AllowAnswer == hreq'.limited = "ok"

\* The sweeper's cleanup runs in this step.
SweeperRuns == limSweep # NoTime /\ limSweep' = NoTime

\* C15: the limiter table never holds more than maxEntries entries; while
\* it is full, every allow for a key that is not in it returns false; and
\* only the sweeper ever removes an entry, an idle one, so the refusals
\* last until then.
C15_TableWithinCapacity ==
    /\ [](Cardinality(DOMAIN limiters) <= maxEntries)
    /\ [][(/\ AllowReturns
           /\ hreq.ip \notin DOMAIN limiters
           /\ Cardinality(DOMAIN limiters) = maxEntries)
              => /\ ~AllowAnswer
                 /\ hreq'.status = StatusTooManyRequests
                 /\ hreq.ip \notin DOMAIN limiters']_vars
    /\ [][\A ip \in DOMAIN limiters :
            ip \notin DOMAIN limiters' =>
               /\ SweeperRuns
               /\ limSweep - limiters[ip].lastSeen > limTTL]_vars

\* A table of two entries is full and a third address has been refused.
C15_Witness ==
    /\ maxEntries = 2
    /\ Cardinality(DOMAIN limiters) = 2
    /\ hreq.stage = "done"
    /\ hreq.limited = "full"
    /\ hreq.ip \notin DOMAIN limiters

\* C16: an allow that refuses a new key because the table is full leaves
\* every entry (bucket and lastSeen) as it was, and an allow for a key in
\* the table is answered by that key's own bucket, full table or not, and
\* touches no other entry.
C16_RefusalLeavesEntries ==
    /\ [][(/\ AllowReturns
           /\ hreq.ip \notin DOMAIN limiters
           /\ Cardinality(DOMAIN limiters) >= maxEntries)
              => /\ ~AllowAnswer
                 /\ limiters' = limiters]_vars
    /\ [][(AllowReturns /\ hreq.ip \in DOMAIN limiters) =>
             LET own == BucketAllow(limiters[hreq.ip].limiter, now) IN
             /\ AllowAnswer = own.ok
             /\ DOMAIN limiters' = DOMAIN limiters
             /\ limiters'[hreq.ip].limiter = own.bucket
             /\ \A k \in DOMAIN limiters \ {hreq.ip} :
                   limiters'[k] = limiters[k]]_vars

\* A new address has been refused by a full table whose one entry has a
\* drained bucket.
C16_Witness ==
    /\ maxEntries = 1
    /\ hreq.stage = "done"
    /\ hreq.limited = "full"
    /\ \E ip \in DOMAIN limiters : limiters[ip].limiter.tokens = 0

\* requirePSK decides on the request in flight in this step.
PSKReturns == hreq.stage = "auth" /\ hreq'.stage # "auth"

\* C17: on both protected routes the credential is checked first, then
\* the rate limit is consumed, then (on /v1/ws) the origin is checked, then
\* the upgrade is made; a request with a missing or wrong credential is
\* answered 401, has consumed no rate-limit token and has created no
\* limiter entry for its address.
C17_CredentialBeforeRateLimit ==
    /\ [][AllowReturns => hreq.authed = "ok"]_vars
    /\ [][PSKReturns =>
            /\ hreq'.authed = "rejected" =>
                  /\ hreq'.status = StatusUnauthorized
                  /\ hreq.limited = "none"
                  /\ ~hreq.wasNew
            /\ hreq'.authed = "ok" => hreq.limited = "none"]_vars
    /\ [](hreq.originOK # "none" => hreq.limited = "ok" /\ hreq.authed = "ok")
    /\ [](hreq.stage \in {"upgrade", "handlews"} => hreq.originOK = "ok")

\* What is left of an Origin header of the model when the white space
\* around it and then one trailing "/" are taken away.
NormalizedOrigin(header) ==
    CASE header = <<>> -> <<>>
      [] header = <<"o">> -> <<"o">>
      [] header = <<"o", "/">> -> <<"o">>
      [] header = <<" ", "o", "/", " ">> -> <<"o">>
      [] header = <<"o", "/", "/">> -> <<"o", "/">>
      [] header = <<" ", "/">> -> <<>>
      [] header = <<"e">> -> <<"e">>

\* The origin rule: without an origin as allowNoOrigin says; with one,
\* always under allowAnyOrigin, otherwise when it is on the allow-list.
OriginAllowed(header) ==
    LET origin == NormalizedOrigin(header) IN
    IF origin = <<>> THEN cfg.WSAllowNoOrigin
    ELSE \/ cfg.WSAllowAnyOrigin
         \/ \E i \in DOMAIN cfg.WSAllowedOrigins :
               cfg.WSAllowedOrigins[i] = origin

\* handleWS checks the origin of the request in flight in this step.
OriginChecked ==
    hreq.stage = "handler" /\ hreq.route = RouteWS /\ hreq'.stage # "handler"

\* C18: the origin check of /v1/ws accepts a request exactly by the origin
\* rule; a rejected request is answered 403, and only an accepted one is
\* upgraded and handed to HandleWS, where Acquire is called.
C18_OriginCheck ==
    /\ [][OriginChecked =>
            /\ (hreq'.originOK = "ok") = OriginAllowed(hreq'.origin)
            /\ (hreq'.originOK = "rejected") = ~OriginAllowed(hreq'.origin)
            /\ hreq'.originOK = "rejected" =>
                  /\ hreq'.stage = "done"
                  /\ hreq'.status = StatusForbidden
                  /\ hreq'.error = "forbidden origin"
            /\ hreq'.originOK = "ok" => hreq'.stage = "upgrade"]_vars
    /\ [][hreq.originOK = "rejected" =>
            hreq' = hreq \/ hreq'.stage = "limit"]_vars
    /\ [][\A p \in Peers :
            (pc[Handler(p)] = "idle" /\ pc'[Handler(p)] # "idle") =>
               /\ hreq.route = RouteWS
               /\ hreq.status = StatusSwitchingProtocols
               /\ OriginAllowed(hreq.origin)]_vars

\* An origin with two trailing slashes has been rejected against an
\* allow-list that holds it with none.
C18_Witness ==
    /\ hreq.originOK = "rejected"
    /\ hreq.status = StatusForbidden
    /\ hreq.origin = <<"o", "/", "/">>
    /\ cfg.WSAllowedOrigins = << <<"o">> >>
    /\ ~cfg.WSAllowAnyOrigin
    /\ cfg.WSAllowNoOrigin

\* The credential requirePSK looks at: the header, or the query parameter
\* when the header is empty and the fallback is on.
Credential ==
    IF hreq'.header # <<>> THEN hreq'.header
    ELSE IF cfg.PSKAllowQuery THEN hreq'.query
    ELSE <<>>

\* C19: requirePSK forwards a request to the route's handler if and only
\* if the credential it looks at is non-empty and equal to the configured
\* PSK, an empty PSK included; otherwise it answers 401 "unauthorized" and
\* the handler never runs for that request.
C19_RequirePSK ==
    /\ [][PSKReturns =>
            IF Credential # <<>> /\ Credential = cfg.PSK
            THEN /\ hreq'.stage = "handler"
                 /\ hreq'.status = NoStatus
            ELSE /\ hreq'.stage = "done"
                 /\ hreq'.status = StatusUnauthorized
                 /\ hreq'.error = "unauthorized"]_vars
    /\ [][hreq.status = StatusUnauthorized =>
            hreq' = hreq \/ hreq'.stage = "limit"]_vars
    /\ [][\A p \in Peers :
            (pc[Handler(p)] = "idle" /\ pc'[Handler(p)] # "idle") =>
               hreq.authed = "ok"]_vars
    /\ [](hreq.stage \in {"handler", "upgrade", "handlews"} =>
             hreq.authed = "ok")

\* With an empty PSK and the query fallback on, a request that gives no
\* credential at all has been turned away.
C19_Witness ==
    /\ cfg.PSK = <<>>
    /\ cfg.PSKAllowQuery
    /\ hreq.authed = "rejected"
    /\ hreq.header = <<>>
    /\ hreq.query = <<>>
    /\ hreq.status = StatusUnauthorized

\* handleFrameUpload has read the body of the request in flight.
BodyRead ==
    /\ hreq.stage = "handler"
    /\ hreq.route = RouteFrames
    /\ hreq'.stage # "handler"

\* handleFrameUpload answers after SaveFrame has returned.
SaveAnswered == hreq.stage = "save" /\ hreq'.stage = "done"

\* C20: handleFrameUpload answers 413 when the input exceeds the size
\* limit (a payload over MaxUploadBytes, a form over the parser's limit),
\* 400 on every other error of reading the body or the form, 500 when
\* SaveFrame returns an error, and 200 with the duplicate flag of the
\* returned meta otherwise; the session is Touched on the 200 path only.
C20_UploadStatuses ==
    /\ [][BodyRead =>
            CASE hreq'.fault \in {"read", "badform", "nofile"} ->
                    /\ hreq'.stage = "done"
                    /\ hreq'.status = StatusBadRequest
              [] hreq'.fault = "formsize" ->
                    /\ hreq'.stage = "done"
                    /\ hreq'.status = StatusRequestEntityTooLarge
              [] hreq'.fault = "none" /\ hreq'.bodyLen > MaxUploadBytes ->
                    /\ hreq'.stage = "done"
                    /\ hreq'.status = StatusRequestEntityTooLarge
              [] hreq'.fault = "none" /\ hreq'.bodyLen <= MaxUploadBytes ->
                    /\ hreq'.stage = "save"
                    /\ hreq'.status = NoStatus]_vars
    /\ [][SaveAnswered =>
            IF lastRet.err
            THEN hreq'.status = StatusInternalServerError
            ELSE /\ hreq'.status = StatusOK
                 /\ hreq'.duplicate = lastRet.meta.Duplicate]_vars
    /\ [][(lastActive' # lastActive \/ (hreq'.touched /\ ~hreq.touched)) =>
            SaveAnswered /\ hreq'.status = StatusOK /\ hreq'.touched]_vars
    /\ [](hreq.touched => hreq.status = StatusOK)

\* A retried upload has been answered 200 with the duplicate flag, the
\* session Touched.
C20_Witness ==
    /\ hreq.stage = "done"
    /\ hreq.status = StatusOK
    /\ hreq.duplicate
    /\ hreq.touched
    /\ count = 1

\* The bounded reader has refused the body of the request as too large.
TooLarge(h) == h.readErr = ErrPayloadTooLarge

\* C21: the bounded reader refuses an input if and only if its length
\* exceeds MaxUploadBytes (exactly MaxUploadBytes is accepted,
\* MaxUploadBytes + 1 is refused), and an upload refused as too large is
\* answered 413 and leaves the files, the cache, last and count as they
\* were.
C21_BoundedReader ==
    /\ [][BodyRead =>
            /\ hreq'.fault \in {"none", "read"} =>
                  (TooLarge(hreq') <=>
                     hreq'.fault = "none" /\ hreq'.bodyLen > MaxUploadBytes)
            /\ hreq'.fault = "none" =>
                  (hreq'.stage = "save" <=> hreq'.bodyLen <= MaxUploadBytes)
            /\ TooLarge(hreq') =>
                  /\ hreq'.status = StatusRequestEntityTooLarge
                  /\ hreq'.error = "payload too large"]_vars
    /\ [][(TooLarge(hreq) \/ TooLarge(hreq')) =>
            UNCHANGED <<files, byIdempotency, idemOrder, last, count, req>>]_vars

\* A body of MaxUploadBytes + 1 has been refused after a body of exactly
\* MaxUploadBytes was saved, and that save is still the last one.
C21_Witness ==
    /\ hreq.stage = "done"
    /\ TooLarge(hreq)
    /\ hreq.bodyLen = MaxUploadBytes + 1
    /\ count = 1
    /\ last.Size = MaxUploadBytes
    /\ Cardinality(DOMAIN files) = 1

\* ------------------------------------------------------------------------
\* Signaling: rejection, invalid messages, bye, the end of a session
\* ------------------------------------------------------------------------

\* The step writes a frame to the transport of peer p.
WritesTo(p) == \E i \in DOMAIN sent' : sent'[i].to = p

InvalidSignals ==
    [invalid_json |-> "invalid json",
     unknown |-> "unknown signal type: ping",
     offer_empty |-> "missing offer sdp",
     candidate_nil |-> "missing candidate"]

\* The step writes to peer p the error frame of an invalid message.
AnswersInvalid(p) ==
    \E k \in DOMAIN InvalidSignals :
       sent' = <<Frame(p, "error", InvalidSignals[k])>>

\* C23: a message that is not JSON, has an unknown type, is an offer with
\* an empty sdp or a candidate message without candidate is answered with
\* one error frame and the loop goes on: the handler stays in the loop, the
\* transport stays open, nothing is Closed and the manager keeps its
\* incumbent and state.  The handler leaves the loop only on a bye or when
\* the read fails (or the context is done).
C23_InvalidMessageKeepsSession ==
    /\ \A p \in Peers, k \in DOMAIN InvalidSignals, ok \in BOOLEAN :
          LoopFrames(p, k, ok) = <<Frame(p, "error", InvalidSignals[k])>>
    /\ [][\A p \in Peers :
            /\ AnswersInvalid(p) =>
                  /\ pc[Handler(p)] = "loop"
                  /\ connState[p] = "open"
                  /\ UNCHANGED <<pc, cstep, connState, closed, pcState,
                                 active, state, mgrMu, effects>>
            /\ (pc[Handler(p)] = "loop" /\ pc'[Handler(p)] # "loop") =>
                  /\ pc'[Handler(p)] \in {"bye", "defer"}
                  /\ sent' = NoFrames]_vars

\* The incumbent has just been sent the error frame of a message that was
\* not JSON; it is still the incumbent, open and in its loop.
C23_Witness ==
    \E p \in Peers :
       /\ sent = <<Frame(p, "error", "invalid json")>>
       /\ pc[Handler(p)] = "loop"
       /\ active = p
       /\ state = StateConnected
       /\ connState[p] = "open"
       /\ ~closed[p]

\* C24: when the Close("remote_bye") that a bye started returns, it is the
\* call that performed the Close (it sent the reason remote_bye and went on
\* to Release), the transport is closed, so that no later message of it is
\* processed, and the peer is not the incumbent.
C24_ByeClosesAndReleases ==
    [][\A p \in Peers :
          (pc[Handler(p)] = "bye" /\ pc'[Handler(p)] # "bye") =>
             /\ cstep[Handler(p)] = "release"
             /\ connState'[p] = "closed"
             /\ active' # p]_vars

\* The handler of a peer whose Acquire succeeded has returned from HandleWS.
LoopEnded(p) == acqResult[p] = "ok" /\ pc[Handler(p)] = "done"

\* C25: once the handler of a peer that Acquired has returned and every
\* call in progress has come to its end, that peer is not the incumbent,
\* and if nobody holds the slot the manager reports Disconnected with an
\* empty sessionId.
C25_LoopEndRestoresEmptySession ==
    Quiescent =>
       \A p \in Peers :
          LoopEnded(p) =>
             /\ active # p
             /\ active = Nil =>
                   /\ Snapshot.State = StateDisconnected
                   /\ Snapshot.SessionID = <<>>

\* C26: when the Close("peer_connection_closed") of the connection-state
\* callback returns, the session has been Closed: by that call, which has
\* then closed the transport and released the slot, or by another call
\* that had taken the latch; and every session that has been Closed has,
\* once every call in progress has come to its end, its transport closed
\* and its peer out of the slot.
C26_PeerFailureEndsSession ==
    /\ [][\A p \in Peers :
            (pc[ConnCb(p)] = "run" /\ pc'[ConnCb(p)] # "run") =>
               /\ closed'[p]
               /\ cstep[ConnCb(p)] = "release" =>
                     /\ connState'[p] = "closed"
                     /\ active' # p]_vars
    /\ [](Quiescent =>
            \A p \in Peers :
               closed[p] => connState[p] = "closed" /\ active # p)

\* ------------------------------------------------------------------------
\* Locks and the network
\* ------------------------------------------------------------------------

\* Goroutine g is about to write to a peer's transport or to close it: the
\* two sendSignal calls and conn.Close of PeerSession.Close.
AtNetworkWait(g) == cstep[g] \in {"sendErr", "sendBye", "connClose"}

\* C28: no goroutine holds the manager lock while it writes to a transport
\* or closes one.  (The frame store's lock is taken and released inside one
\* SaveFrame or cleanupExpired step, which touches files only.)
C28_NoLockAcrossNetworkWait ==
    \A g \in Goroutines : AtNetworkWait(g) => mgrMu # g

\* ------------------------------------------------------------------------
\* Uploads beside the sessions
\* ------------------------------------------------------------------------

\* C27: an upload that has been let through and parsed is never stopped by
\* what the sessions do: whenever every session call in progress has
\* returned or is blocked for good, an upload that has not been answered can
\* take its next step, and the answer it gets is 200 or 500.
C27_UploadsNeverBlocked ==
    /\ (hreq.stage = "save" /\ Quiescent) => ENABLED UploadStep
    /\ hreq.stage = "done" =>
          hreq.status \in {StatusOK, StatusInternalServerError}

\* ------------------------------------------------------------------------
\* Configuration and shutdown
\* ------------------------------------------------------------------------

\* The spellings of a number greater than zero among the values of Envs.
PositiveNumbers == {<<"1">>, <<"3">>, <<"+", "2">>}

\* The variable is set to something that is not a number greater than zero.
NotPositive(raw) == raw # <<>> /\ raw \notin PositiveNumbers

\* The variable is set to a spelling of true.
SaysTrue(raw) == raw \in {"true", "1"}

\* The documented defaults, with no secret and no secret required.
DocumentedDefaults ==
    [HTTPAddr |-> ":8080", DataDir |-> "/data", LogLevel |-> "info",
     PSKHeader |-> <<"X", "-", "E", "r", "m", "e", "t", "e", "-", "P", "S", "K">>,
     PSK |-> "", AllowNoPSK |-> TRUE, PSKAllowQuery |-> FALSE,
     WSAllowNoOrigin |-> TRUE, WSAllowAnyOrigin |-> FALSE,
     MaxUploadMB |-> 10, SessionPolicy |-> "reject_second",
     ShutdownGracePeriod |-> 15, RateLimitMaxEntries |-> 10000,
     RateLimitTTL |-> 1800, IdempotencyTTL |-> 600, IdempotencyMax |-> 50000]

\* C29: Load fails, and then returns the zero Config, when ERMETE_PSK is
\* empty and ERMETE_ALLOW_NO_PSK does not say true, when SESSION_POLICY is
\* set to anything but reject_second or kick_previous, and when
\* MAX_UPLOAD_MB, IDEMPOTENCY_MAX or RATE_LIMIT_MAX_ENTRIES is set to
\* something that is not a number greater than zero; every failure returns
\* the zero Config; with ERMETE_ALLOW_NO_PSK=true and nothing else set it
\* succeeds with the documented defaults.
C29_LoadFailsOrDefaults ==
    boot.loaded =>
       LET e == boot.env IN
       /\ (e.ERMETE_PSK = "" /\ ~SaysTrue(e.ERMETE_ALLOW_NO_PSK)) =>
             boot.err # ""
       /\ (e.SESSION_POLICY \notin {"", "reject_second", "kick_previous"}) =>
             boot.err # ""
       /\ NotPositive(e.MAX_UPLOAD_MB) => boot.err # ""
       /\ NotPositive(e.IDEMPOTENCY_MAX) => boot.err # ""
       /\ NotPositive(e.RATE_LIMIT_MAX_ENTRIES) => boot.err # ""
       /\ boot.err # "" => boot.cfg = ZeroConfig
       /\ e = EnvAllowNoPSKOnly =>
             boot.err = "" /\ boot.cfg = DocumentedDefaults

\* Load has refused an environment whose only fault is IDEMPOTENCY_MAX=0,
\* and returned the zero Config.
C29_Witness ==
    /\ boot.loaded
    /\ boot.env = [EnvAllowNoPSKOnly EXCEPT !.IDEMPOTENCY_MAX = <<"0">>]
    /\ boot.err = "IDEMPOTENCY_MAX must be > 0"
    /\ boot.cfg = ZeroConfig

\* C30: once the signal has come no request is accepted; Shutdown waits no
\* longer than the grace period, and returns before it has passed only when
\* no request is in flight; whatever it returns the process comes to its
\* end, and when it has ended no connection is open, so that the requests
\* still in flight when the grace period passed have been cut.
C30_GracefulShutdown ==
    /\ [][srv.phase # "serving" => srv'.accepted = srv.accepted]_vars
    /\ [](srv.phase = "draining" =>
            srv.elapsed <= boot.cfg.ShutdownGracePeriod)
    /\ [][(srv.phase = "draining" /\ srv'.phase # "draining") =>
            \/ srv.inFlight = 0
            \/ srv.elapsed = boot.cfg.ShutdownGracePeriod]_vars
    /\ [](srv.phase \in {"draining", "returned"} => ENABLED NextMain)
    /\ [](srv.phase = "stopped" => srv.inFlight = 0 /\ srv.hijacked = 0)

\* The grace period has passed with a request in flight; Shutdown returned
\* the context's error and the process has ended, cutting the request.
C30_Witness ==
    /\ srv.phase = "stopped"
    /\ srv.err = "deadline"
    /\ srv.elapsed = boot.cfg.ShutdownGracePeriod
    /\ srv.cut > 0

\* ------------------------------------------------------------------------
\* The order of Close, the cache's order, stale callbacks
\* ------------------------------------------------------------------------

\* s is an initial part of t.
IsPrefix(s, t) == Len(s) <= Len(t) /\ s = SubSeq(t, 1, Len(s))

\* C31: what the Close calls have done to a session is at every moment an
\* initial part of: error frame, bye frame, peer connection closed (when
\* there is one), transport closed, Release; nothing is done before the
\* latch is set; a send that fails is followed by the next step all the
\* same; and when nothing can run any more the call that set the latch has
\* closed the transport and returned from Release or is in its call.
C31_CloseOrder ==
    /\ [](\A p \in Peers :
            /\ \E full \in FullClose : IsPrefix(effects[p], full)
            /\ effects[p] # <<>> => closed[p])
    /\ [][\A g \in Goroutines :
            /\ (cstep[g] = "sendErr" /\ cstep'[g] # "sendErr") =>
                  cstep'[g] = "sendBye"
            /\ (cstep[g] = "sendBye" /\ cstep'[g] # "sendBye") =>
                  cstep'[g] = "pcClose"]_vars
    /\ [](Quiescent =>
            \A p \in Peers :
               closed[p] =>
                  \/ effects[p] \in FullClose
                  \/ /\ \E full \in FullClose :
                           effects[p] = SubSeq(full, 1, Len(full) - 1)
                     /\ \E g \in Goroutines :
                           cstep[g] = "release" /\ CloseTarget(g) = p)

\* A Close has run from the latch to the end of Release on a session that
\* had a peer connection.
C31_Witness ==
    \E p \in Peers :
       /\ closed[p]
       /\ effects[p] = <<"error", "bye", "pc_close", "conn_close", "release">>
       /\ connState[p] = "closed"
       /\ pcState[p] = "closed"
       /\ Released(p)

\* The keys of the insertion-order list.
OrderKeys(o) == {o[i] : i \in DOMAIN o}

\* A SaveFrame call carrying key k writes its file in this step and goes
\* on to addIdemEntryLocked.
Inserts(k) ==
    \E c \in Clients :
       /\ req[c] # NoReq
       /\ req'[c] = NoReq
       /\ req[c].idem = k
       /\ count' # count

Hits ==
    \E c \in Clients :
       /\ req[c] # NoReq
       /\ req'[c] = NoReq
       /\ ~lastRet'.err
       /\ ~lastRet'.wrote

\* C33: the seenAt of an entry is at every moment the time of the save
\* that inserted it; a duplicate hit leaves the map and the order list as
\* they were; a sweep leaves every entry it keeps, and the order of the
\* keys it keeps, as they were; and no call that read the clock later than
\* TTL after the save that inserted the entry is answered as a duplicate.
C33_HitsRefreshNothing ==
    /\ [](\A k \in DOMAIN byIdempotency :
            byIdempotency[k].seenAt = byIdempotency[k].frameMeta.ReceivedAt)
    /\ [][Hits => UNCHANGED <<byIdempotency, idemOrder>>]_vars
    /\ [][\A c \in Clients :
            (Hits /\ req[c] # NoReq /\ req'[c] = NoReq) =>
               req[c].now - lastRet'.meta.ReceivedAt <= idemTTL]_vars
    /\ [][(sweepNow # NoTime /\ sweepNow' = NoTime) =>
            /\ \A k \in DOMAIN byIdempotency' :
                  byIdempotency'[k] = byIdempotency[k]
            /\ idemOrder' = SelectSeq(idemOrder,
                                LAMBDA k : k \in DOMAIN byIdempotency')]_vars

\* The oldest of two entries has just been hit, later than it was inserted,
\* and is still the first to go.
C33_Witness ==
    /\ lastRet # NoRet
    /\ ~lastRet.err
    /\ ~lastRet.wrote
    /\ Len(idemOrder) = 2
    /\ idemOrder[1] = lastRet.idem
    /\ lastRet.at > byIdempotency[lastRet.idem].seenAt

\* C34: under KickPrevious, whatever the interleaving of a Close of the
\* incumbent by its own callback or read loop with the Acquire that kicks
\* it: no side effect of the Close happens twice; the Acquire returns, and
\* when it does its peer is the incumbent with state Connecting; and the
\* Release of a peer that is no longer the incumbent leaves the slot alone.
C34_KickRacesClose ==
    /\ [](policy = SessionPolicyKickPrevious =>
            /\ \A p \in Peers :
                  \A e \in {"error", "bye", "pc_close", "conn_close",
                             "release"} : Count(p, e) <= 1
            /\ Quiescent => \A b \in Peers : pc[Handler(b)] # "kick")
    /\ [][policy = SessionPolicyKickPrevious =>
            \A b \in Peers :
               /\ (pc[Handler(b)] = "kick" /\ pc'[Handler(b)] # "kick") =>
                     active' = b /\ state' = StateConnecting
               /\ (~Released(b) /\ Released(b)' /\ active # b) =>
                     UNCHANGED <<active, state>>]_vars

\* C36: only the incumbent drives the state of the manager: when the ICE
\* callback of a peer that is not the incumbent (kicked, or Released) calls
\* SetState, the state that Snapshot reports does not change.
C36_OnlyIncumbentSetsState ==
    [][\A p \in Peers :
          (pc[IceCb(p)] = "set" /\ pc'[IceCb(p)] = "idle" /\ active # p) =>
             Snapshot.State' = Snapshot.State]_vars

\* C38: once the Close of a session has run through the closing of its
\* transport and its HandleWS has returned, the session has no open peer
\* connection, whenever the Close began.
C38_NoPeerConnectionLeft ==
    \A p \in Peers :
       (Count(p, "conn_close") = 1 /\ pc[Handler(p)] = "done") =>
          pcState[p] # "open"

\* The rate and the burst of a bucket.
Params(b) == <<b.limit, b.burst>>

\* C37: one table serves both routes and its key is the client address
\* alone: an allow that creates the entry gives its bucket the rate and the
\* burst of the route that called; every later allow for the address, from
\* either route, is answered by that bucket, takes its token there and
\* leaves the rate and the burst as they were; and no other step changes
\* the rate or the burst of an entry that stays.
C37_FirstAllowFixesBucket ==
    /\ [][(AllowReturns /\ hreq.ip \notin DOMAIN limiters
                        /\ hreq.ip \in DOMAIN limiters') =>
             Params(limiters'[hreq.ip].limiter) =
                <<RouteRate(hreq.route), RouteBurst(hreq.route)>>]_vars
    /\ [][(AllowReturns /\ hreq.ip \in DOMAIN limiters) =>
             LET own == BucketAllow(limiters[hreq.ip].limiter, now) IN
             /\ AllowAnswer = own.ok
             /\ limiters'[hreq.ip].limiter = own.bucket]_vars
    /\ [][\A ip \in DOMAIN limiters \cap DOMAIN limiters' :
             Params(limiters'[ip].limiter) = Params(limiters[ip].limiter)]_vars

\* A request for the WS route has been let through by the bucket that an
\* upload from the same address created: its burst is the upload route's.
C37_Witness ==
    /\ hreq.route = RouteWS
    /\ hreq.limited = "ok"
    /\ ~hreq.wasNew
    /\ hreq.ip \in DOMAIN limiters
    /\ Params(limiters[hreq.ip].limiter) =
          <<RouteRate(RouteFrames), RouteBurst(RouteFrames)>>
    /\ RouteBurst(RouteFrames) # RouteBurst(RouteWS)

\* C35: in the remote-audio loop every packet read bumps the inbound
\* counter, then touches the session's activity, then is passed to the
\* outbound track; a read error ends the loop; and an error of the write to
\* the outbound track ends the loop too.
C35_AudioLoop ==
    /\ [](/\ track.packetsIn = track.reads
             - (IF track.step = "read_error" THEN 1 ELSE 0)
          /\ track.pos \in {"read", "returned"} /\ track.kind = "audio" =>
                /\ track.touches = track.packetsIn
                /\ Len(track.offered) = track.packetsIn)
    /\ [][/\ track'.step = "read" /\ track' # track =>
              track'.packetsIn = track.packetsIn + 1
          /\ track'.step = "touch" /\ track' # track =>
              track.step = "read" /\ lastActive' \in TimeNow(lastActive)
          /\ track'.step \in {"write", "write_error"} /\ track' # track =>
              /\ track.step = "touch"
              /\ track'.offered = Append(track.offered, track.pkt)
          /\ track'.step = "read_error" /\ track' # track =>
              track'.pos = "returned"
          /\ track'.step = "write_error" /\ track' # track =>
              track'.pos = "returned"]_vars

====
